---- MODULE Spec2Model ----
(***************************************************************************)
(* elastic-2-neo: the mapping-driven compiler of source/neo.py            *)
(* (GraphBuilder) and the polling loop of source/elastic2neo.py           *)
(* (_execute), as a state machine.                                        *)
(*                                                                         *)
(* Python values are tagged records [kind, v]; a dict is a "rec" whose v  *)
(* is a function from keys to values, a str is the sequence of its        *)
(* characters, a list the sequence of its elements.  A dotted path        *)
(* "a.b" is kept as the list of segments that "a.b".split(".") returns.   *)
(* An ordered dict of properties is a sequence of entries.                *)
(***************************************************************************)
EXTENDS Integers, Sequences, FiniteSets, TLC

(***************************************************************************)
(* Python values                                                           *)
(***************************************************************************)
Num(n) == [kind |-> "num", v |-> n]
Str(cs) == [kind |-> "str", v |-> cs]
Lst(xs) == [kind |-> "list", v |-> xs]
Rec(f) == [kind |-> "rec", v |-> f]
None == [kind |-> "none", v |-> 0]

\* The characters of a key, for Python's substring test `key in "text"`.
KeyChars(key) ==
    IF key = "ITER!" THEN <<"I", "T", "E", "R", "!">> ELSE <<key>>

IsSubstr(p, s) ==
    \E i \in 0..(Len(s) - Len(p)) : SubSeq(s, i + 1, i + Len(p)) = p

\* Python's `key in item`: "True", "False", or "TypeError" when item is not
\* a container (an int, None).
KeyIn(key, item) ==
    CASE item.kind = "rec" ->
            IF key \in DOMAIN item.v THEN "True" ELSE "False"
      [] item.kind = "list" ->
            IF \E i \in 1..Len(item.v) :
                    item.v[i].kind = "str" /\ item.v[i].v = KeyChars(key)
            THEN "True" ELSE "False"
      [] item.kind = "str" ->
            IF IsSubstr(KeyChars(key), item.v) THEN "True" ELSE "False"
      [] OTHER -> "TypeError"

(***************************************************************************)
(* Path resolver                                                           *)
(***************************************************************************)
\* GraphBuilder._recursive_key_check: "True", "False", or "TypeError" (the
\* exception Python raises on `key in 5` or on "text"["key"]).
RECURSIVE _recursive_key_check(_, _)
_recursive_key_check(keys, item) ==
    IF Len(keys) > 1
    THEN CASE KeyIn(keys[1], item) = "True" ->
                 IF item.kind = "rec"
                 THEN _recursive_key_check(Tail(keys), item.v[keys[1]])
                 ELSE "TypeError"
           [] KeyIn(keys[1], item) = "False" -> "False"
           [] OTHER -> "TypeError"
    ELSE KeyIn(keys[1], item)

\* GraphBuilder._recursive_get_value: [raised, value].
RECURSIVE _recursive_get_value(_, _)
_recursive_get_value(keys, item) ==
    IF Len(keys) > 1
    THEN CASE KeyIn(keys[1], item) = "True" ->
                 IF item.kind = "rec"
                 THEN _recursive_get_value(Tail(keys), item.v[keys[1]])
                 ELSE [raised |-> TRUE, value |-> None]
           [] KeyIn(keys[1], item) = "False" -> [raised |-> FALSE, value |-> None]
           [] OTHER -> [raised |-> TRUE, value |-> None]
    ELSE CASE KeyIn(keys[1], item) = "True" ->
                 IF item.kind = "rec"
                 THEN [raised |-> FALSE, value |-> item.v[keys[1]]]
                 ELSE [raised |-> TRUE, value |-> None]
           [] KeyIn(keys[1], item) = "False" -> [raised |-> FALSE, value |-> None]
           [] OTHER -> [raised |-> TRUE, value |-> None]

(***************************************************************************)
(* Ordered dicts of compiled properties: sequences of [name, value, type] *)
(***************************************************************************)
Names(props) == {props[i].name : i \in 1..Len(props)}

Has(r, field) == field \in DOMAIN r

\* d[name] = entry on an ordered dict (replaces in place, else appends).
DictSet(props, entry) ==
    IF entry.name \in Names(props)
    THEN [i \in 1..Len(props) |->
            IF props[i].name = entry.name THEN entry ELSE props[i]]
    ELSE Append(props, entry)

(***************************************************************************)
(* Node compiler                                                           *)
(***************************************************************************)
\* LET v == x IN F(v), with x evaluated once.
Let(x, F(_)) == CHOOSE y \in {F(v) : v \in {x}} : TRUE

\* The two path calls the compilers make for a property definition p: the
\* presence test, and the value read when it is present.
\* "True", "False" or "TypeError", and the entry stored in the dict.
Lookup(doc, p) ==
    Let(_recursive_key_check(p.key, doc), LAMBDA chk :
        IF chk = "True"
        THEN Let(_recursive_get_value(p.key, doc), LAMBDA got :
                [chk |-> IF got.raised THEN "TypeError" ELSE "True",
                 entry |-> [name |-> p.name, value |-> got.value,
                            type |-> p.type]])
        ELSE [chk |-> chk,
              entry |-> [name |-> p.name, value |-> None, type |-> p.type]])

IsUnique(def, p) ==
    Has(def, "uniqueProperties") /\ p.name \in def.uniqueProperties

\* A variant that never treats a property as required.
IsRequiredNever(def, p) == FALSE

IsRequired(def, p) ==
    Has(def, "requiredProperties") /\ p.name \in def.requiredProperties

\* A variant that takes every property for a unique one.
StoreAllUnique(acc, def, p, entry) ==
    [acc EXCEPT !.properties = DictSet(@, entry),
                !.unique_properties = DictSet(@, entry)]

\* properties[key] = entry, and unique_properties[key] = deepcopy(entry) when
\* the definition lists the key in uniqueProperties.
Store(acc, def, p, entry) ==
    [acc EXCEPT !.properties = DictSet(@, entry),
                !.unique_properties =
                    IF IsUnique(def, p) THEN DictSet(@, entry) ELSE @]

\* The loop of _gen_standard_node over node["properties"], from entry i on.
\* acc = [properties, unique_properties, valid, raised].  A missing required
\* property clears valid and the loop goes on.
RECURSIVE StandardNodeProps(_, _, _, _)
StandardNodeProps(doc, node, i, acc) ==
    IF i > Len(node.properties)
    THEN acc
    ELSE Let(Lookup(doc, node.properties[i]), LAMBDA l :
            CASE l.chk = "TypeError" ->
                    [acc EXCEPT !.raised = TRUE]
              [] l.chk = "True" ->
                    StandardNodeProps(doc, node, i + 1,
                        Store(acc, node, node.properties[i], l.entry))
              [] OTHER ->
                    IF IsRequired(node, node.properties[i])
                    THEN StandardNodeProps(doc, node, i + 1,
                            [acc EXCEPT !.valid = FALSE])
                    ELSE StandardNodeProps(doc, node, i + 1, acc))

EmptyProps ==
    [properties |-> <<>>, unique_properties |-> <<>>, valid |-> TRUE,
     raised |-> FALSE]

\* new_node with the optional keys the code sets when they are non-empty.
WithProps(new_node, acc) ==
    (IF Len(acc.properties) > 0
        THEN "properties" :> acc.properties ELSE <<>>)
    @@ (IF Len(acc.unique_properties) > 0
        THEN "uniqueProperties" :> acc.unique_properties ELSE <<>>)
    @@ new_node

\* GraphBuilder._gen_standard_node: [node, valid, raised].
_gen_standard_node(doc, node, new_node) ==
    Let(IF Has(node, "properties")
        THEN StandardNodeProps(doc, node, 1, EmptyProps)
        ELSE EmptyProps,
        LAMBDA acc :
            [node |-> IF acc.valid /\ ~acc.raised
                      THEN (IF Has(node, "uniqueLabels")
                            THEN "uniqueLabels" :> node.uniqueLabels ELSE <<>>)
                           @@ WithProps(new_node, acc)
                      ELSE new_node,
             valid |-> acc.valid,
             raised |-> acc.raised])

\* Dicts of the model are taken to have been filled in this key order, which is
\* the order `for value in <dict>` yields their keys in.
KeyOrder == <<"a", "b", "n", "t", "ITER!">>

\* A variant that walks a list from its last element to its first.
IterItemsReversed(x) ==
    CASE x.kind = "list" ->
            [raised |-> FALSE,
             items |-> [i \in 1..Len(x.v) |-> x.v[Len(x.v) + 1 - i]]]
      [] OTHER -> [raised |-> TRUE, items |-> <<>>]

\* What `for value in x` iterates over: [raised, items].
IterItems(x) ==
    CASE x.kind = "list" -> [raised |-> FALSE, items |-> x.v]
      [] x.kind = "str" ->
            [raised |-> FALSE,
             items |-> [i \in 1..Len(x.v) |-> Str(<<x.v[i]>>)]]
      [] x.kind = "rec" ->
            [raised |-> FALSE,
             items |-> Let(SelectSeq(KeyOrder, LAMBDA k : k \in DOMAIN x.v),
                           LAMBDA ks : [i \in 1..Len(ks) |-> Str(KeyChars(ks[i]))])]
      [] OTHER -> [raised |-> TRUE, items |-> <<>>]

\* The property loop of one instance in _gen_iterative_node, from entry i on;
\* a path that is absent and is ITER! binds the array element; a missing
\* required property ends the loop (break).
RECURSIVE IteratorNodeProps(_, _, _, _, _)
IteratorNodeProps(doc, node, value, i, acc) ==
    IF i > Len(node.properties)
    THEN acc
    ELSE Let(Lookup(doc, node.properties[i]), LAMBDA l :
            CASE l.chk = "TypeError" ->
                    [acc EXCEPT !.raised = TRUE]
              [] l.chk = "True" ->
                    IteratorNodeProps(doc, node, value, i + 1,
                        Store(acc, node, node.properties[i], l.entry))
              [] l.chk = "False" /\ node.properties[i].key = <<"ITER!">> ->
                    IteratorNodeProps(doc, node, value, i + 1,
                        Store(acc, node, node.properties[i],
                              [l.entry EXCEPT !.value = value]))
              [] OTHER ->
                    IF IsRequired(node, node.properties[i])
                    THEN [acc EXCEPT !.valid = FALSE]
                    ELSE IteratorNodeProps(doc, node, value, i + 1, acc))

\* node_instance = {"labels": ..} with uniqueLabels when the definition has them
NodeInstance(node) ==
    (IF Has(node, "uniqueLabels")
     THEN "uniqueLabels" :> node.uniqueLabels ELSE <<>>)
    @@ [labels |-> node.labels]

\* The loop of _gen_iterative_node over the array's elements, from element j
\* on.  acc = [node_list, raised].
RECURSIVE IteratorInstances(_, _, _, _, _)
IteratorInstances(doc, node, items, j, acc) ==
    IF j > Len(items)
    THEN acc
    ELSE Let(IF Has(node, "properties")
             THEN IteratorNodeProps(doc, node, items[j], 1, EmptyProps)
             ELSE EmptyProps,
             LAMBDA props :
                IF props.raised
                THEN [acc EXCEPT !.raised = TRUE]
                ELSE IteratorInstances(doc, node, items, j + 1,
                        IF props.valid
                        THEN [acc EXCEPT !.node_list =
                                Append(@, WithProps(NodeInstance(node), props))]
                        ELSE acc))

\* The iterator path of the node, resolved: [raised, items]; no items when
\* the path is absent.
IteratorArray(doc, node) ==
    Let(_recursive_key_check(node.iterator, doc), LAMBDA chk :
        CASE chk = "TypeError" -> [raised |-> TRUE, items |-> <<>>]
          [] chk = "False" -> [raised |-> FALSE, items |-> <<>>]
          [] OTHER ->
                Let(_recursive_get_value(node.iterator, doc), LAMBDA got :
                    IF got.raised
                    THEN [raised |-> TRUE, items |-> <<>>]
                    ELSE IterItems(got.value)))

\* A variant that finds the node valid whatever the number of instances.
IterativeNodeAlwaysValid(doc, node, new_node) ==
    Let(IteratorArray(doc, node), LAMBDA it :
        Let(IF it.raised
            THEN [node_list |-> <<>>, raised |-> TRUE]
            ELSE IteratorInstances(doc, node, it.items, 1,
                    [node_list |-> <<>>, raised |-> FALSE]),
            LAMBDA acc :
                [node |-> IF Len(acc.node_list) > 0 /\ ~acc.raised
                          THEN ("instances" :> acc.node_list) @@ new_node
                          ELSE new_node,
                 valid |-> TRUE,
                 raised |-> acc.raised]))

\* GraphBuilder._gen_iterative_node: [node, valid, raised].
_gen_iterative_node(doc, node, new_node) ==
    Let(IteratorArray(doc, node), LAMBDA it :
        Let(IF it.raised
            THEN [node_list |-> <<>>, raised |-> TRUE]
            ELSE IteratorInstances(doc, node, it.items, 1,
                    [node_list |-> <<>>, raised |-> FALSE]),
            LAMBDA acc :
                [node |-> IF Len(acc.node_list) > 0 /\ ~acc.raised
                          THEN ("instances" :> acc.node_list) @@ new_node
                          ELSE new_node,
                 valid |-> Len(acc.node_list) > 0,
                 raised |-> acc.raised]))

\* One node definition of the loop in _gen_nodes: [node, valid, raised].
GenNode(doc, node) ==
    Let([nodeType |-> node.nodeType, labels |-> node.labels, id |-> node.id],
        LAMBDA new_node :
            CASE node.nodeType = "standard" ->
                    _gen_standard_node(doc, node, new_node)
              [] node.nodeType = "iterator" ->
                    _gen_iterative_node(doc, node, new_node)
              [] OTHER -> [node |-> new_node, valid |-> FALSE, raised |-> FALSE])

\* A variant in which a required node that is not valid marks the document
\* and the loop goes on.
RECURSIVE GenNodesFromNoBreak(_, _, _, _)
GenNodesFromNoBreak(defs, doc, i, acc) ==
    IF i > Len(defs)
    THEN acc
    ELSE Let(GenNode(doc, defs[i]), LAMBDA r :
            IF r.raised THEN [acc EXCEPT !.raised = TRUE]
            ELSE IF r.valid
            THEN GenNodesFromNoBreak(defs, doc, i + 1,
                    [acc EXCEPT !.nodes = Append(@, r.node)])
            ELSE GenNodesFromNoBreak(defs, doc, i + 1,
                    [acc EXCEPT !.valid = @ /\ ~defs[i].required]))

\* The loop of _gen_nodes from definition i on; a required node that is not
\* valid ends it (break).  acc = [nodes, valid, raised].
RECURSIVE GenNodesFrom(_, _, _, _)
GenNodesFrom(defs, doc, i, acc) ==
    IF i > Len(defs)
    THEN acc
    ELSE Let(GenNode(doc, defs[i]), LAMBDA r :
            IF r.raised THEN [acc EXCEPT !.raised = TRUE]
            ELSE IF r.valid
            THEN GenNodesFrom(defs, doc, i + 1,
                    [acc EXCEPT !.nodes = Append(@, r.node)])
            ELSE IF defs[i].required
            THEN [acc EXCEPT !.valid = FALSE]
            ELSE GenNodesFrom(defs, doc, i + 1, acc))

\* GraphBuilder._gen_nodes: [nodes, valid, raised].
_gen_nodes(mapping, doc) ==
    GenNodesFrom(mapping.nodes, doc, 1,
                 [nodes |-> <<>>, valid |-> TRUE, raised |-> FALSE])

(***************************************************************************)
(* Relationship compiler                                                   *)
(***************************************************************************)
\* The endpoint search of _gen_standard_relationship and
\* _gen_iterative_relationship: the last compiled node with the wanted id.
NodeFound(nodes, id) == \E i \in 1..Len(nodes) : nodes[i].id = id

FindNode(nodes, id) ==
    nodes[CHOOSE i \in 1..Len(nodes) :
            /\ nodes[i].id = id
            /\ \A j \in (i + 1)..Len(nodes) : nodes[j].id # id]

\* The property loop shared by both relationship compilers, from entry i on.
\* A missing required property ends the loop (break).  A key listed in
\* uniqueProperties is copied from properties after the presence test,
\* whether or not it was stored there: KeyError when it was not.
RECURSIVE RelationshipProps(_, _, _, _)
RelationshipProps(doc, relationship, i, acc) ==
    IF i > Len(relationship.properties)
    THEN acc
    ELSE Let(Lookup(doc, relationship.properties[i]), LAMBDA l :
            CASE l.chk = "TypeError" ->
                    [acc EXCEPT !.raised = TRUE]
              [] l.chk = "True" ->
                    RelationshipProps(doc, relationship, i + 1,
                        Store(acc, relationship, relationship.properties[i],
                              l.entry))
              [] OTHER ->
                    IF IsRequired(relationship, relationship.properties[i])
                    THEN [acc EXCEPT !.valid = FALSE]
                    ELSE IF IsUnique(relationship, relationship.properties[i])
                         THEN [acc EXCEPT !.raised = TRUE]
                         ELSE RelationshipProps(doc, relationship, i + 1, acc))

\* Both endpoint ids resolve among the compiled nodes.
EndpointsFound(relationship, nodes) ==
    /\ NodeFound(nodes, relationship.sourceNode)
    /\ NodeFound(nodes, relationship.destinationNode)

\* new_relationship with the endpoints that were found.
WithEndpoints(new_relationship, relationship, nodes) ==
    (IF NodeFound(nodes, relationship.sourceNode)
     THEN "sourceNode" :> FindNode(nodes, relationship.sourceNode) ELSE <<>>)
    @@ (IF NodeFound(nodes, relationship.destinationNode)
        THEN "destinationNode" :> FindNode(nodes, relationship.destinationNode)
        ELSE <<>>)
    @@ new_relationship

\* The keys copied from the definition: directionality, and unique if given.
WithFlags(new_relationship, relationship) ==
    (IF Has(relationship, "unique")
     THEN "unique" :> relationship.unique ELSE <<>>)
    @@ ("directionality" :> relationship.directionality)
    @@ new_relationship

\* GraphBuilder._gen_standard_relationship: [relationship, valid, raised].
_gen_standard_relationship(doc, relationship, nodes, new_relationship) ==
    Let(WithEndpoints(WithFlags(new_relationship, relationship),
                      relationship, nodes),
        LAMBDA base :
        Let(IF ~EndpointsFound(relationship, nodes)
            THEN [EmptyProps EXCEPT !.valid = FALSE]
            ELSE IF Has(relationship, "properties")
                 THEN RelationshipProps(doc, relationship, 1, EmptyProps)
                 ELSE EmptyProps,
            LAMBDA acc :
                [relationship |-> IF acc.valid /\ ~acc.raised
                                  THEN WithProps(base, acc) ELSE base,
                 valid |-> acc.valid,
                 raised |-> acc.raised]))

\* instance = {"type": .., "directionality": ..} with unique if given
RelationshipInstance(relationship) ==
    (IF Has(relationship, "unique")
     THEN "unique" :> relationship.unique ELSE <<>>)
    @@ [type |-> relationship.type,
        directionality |-> relationship.directionality]

\* The instance loop of _gen_iterative_relationship, from instance i of n on:
\* every instance evaluates the relationship's properties against the
\* document.  acc = [instances, raised].
RECURSIVE RelationshipInstances(_, _, _, _, _)
RelationshipInstances(doc, relationship, n, i, acc) ==
    IF i > n
    THEN acc
    ELSE Let(IF Has(relationship, "properties")
             THEN RelationshipProps(doc, relationship, 1, EmptyProps)
             ELSE EmptyProps,
             LAMBDA props :
                IF props.raised
                THEN [acc EXCEPT !.raised = TRUE]
                ELSE RelationshipInstances(doc, relationship, n, i + 1,
                        IF props.valid
                        THEN [acc EXCEPT !.instances =
                                Append(@, WithProps(RelationshipInstance(relationship),
                                                    props))]
                        ELSE acc))

\* The compiled nodes with the wanted id that are iterator nodes.
IteratorMatches(nodes, id) ==
    SelectSeq(nodes, LAMBDA n : n.id = id /\ n.nodeType = "iterator")

\* A variant that counts the source endpoint only.
IterativeNodesSourceOnly(relationship, nodes) ==
    Len(IteratorMatches(nodes, relationship.sourceNode))

\* iterative_nodes: the endpoints of the relationship that resolve to an
\* iterator node.
IterativeNodes(relationship, nodes) ==
    Len(IteratorMatches(nodes, relationship.sourceNode))
    + Len(IteratorMatches(nodes, relationship.destinationNode))

\* iterative_node: the iterator node the endpoint search saw last, the
\* destination's search running after the source's.
IterativeNode(relationship, nodes) ==
    Let(IteratorMatches(nodes, relationship.sourceNode)
        \o IteratorMatches(nodes, relationship.destinationNode),
        LAMBDA seen : seen[Len(seen)])

\* GraphBuilder._gen_iterative_relationship: [relationship, valid, raised].
_gen_iterative_relationship(doc, relationship, nodes, new_relationship) ==
    Let(WithEndpoints(new_relationship, relationship, nodes), LAMBDA base :
        Let(IF EndpointsFound(relationship, nodes)
               /\ IterativeNodes(relationship, nodes) = 1
            THEN RelationshipInstances(doc, relationship,
                    Len(IterativeNode(relationship, nodes).instances), 1,
                    [instances |-> <<>>, raised |-> FALSE])
            ELSE [instances |-> <<>>, raised |-> FALSE],
            LAMBDA acc :
                [relationship |-> IF Len(acc.instances) > 0 /\ ~acc.raised
                                  THEN ("instances" :> acc.instances) @@ base
                                  ELSE base,
                 valid |-> Len(acc.instances) > 0,
                 raised |-> acc.raised]))

\* One relationship definition of the loop in _gen_relationships.
GenRelationship(doc, relationship, nodes) ==
    Let([type |-> relationship.type,
         relationshipType |-> relationship.relationshipType],
        LAMBDA new_relationship :
            CASE relationship.relationshipType = "standard" ->
                    _gen_standard_relationship(doc, relationship, nodes,
                                               new_relationship)
              [] relationship.relationshipType = "iterator" ->
                    _gen_iterative_relationship(doc, relationship, nodes,
                                                new_relationship)
              [] OTHER -> [relationship |-> new_relationship, valid |-> FALSE,
                           raised |-> FALSE])

\* The loop of _gen_relationships from definition i on; a required relationship
\* that is not valid ends it (break).  acc = [relationships, valid, raised].
RECURSIVE GenRelationshipsFrom(_, _, _, _, _)
GenRelationshipsFrom(defs, doc, nodes, i, acc) ==
    IF i > Len(defs)
    THEN acc
    ELSE Let(GenRelationship(doc, defs[i], nodes), LAMBDA r :
            IF r.raised THEN [acc EXCEPT !.raised = TRUE]
            ELSE IF r.valid
            THEN GenRelationshipsFrom(defs, doc, nodes, i + 1,
                    [acc EXCEPT !.relationships = Append(@, r.relationship)])
            ELSE IF defs[i].required
            THEN [acc EXCEPT !.valid = FALSE]
            ELSE GenRelationshipsFrom(defs, doc, nodes, i + 1, acc))

\* GraphBuilder._gen_relationships: [relationships, valid, raised].
_gen_relationships(mapping, doc, nodes) ==
    GenRelationshipsFrom(mapping.relationships, doc, nodes, 1,
                 [relationships |-> <<>>, valid |-> TRUE, raised |-> FALSE])

(***************************************************************************)
(* Statement generator.  A Cypher statement is the sequence of the tokens  *)
(* the code concatenates into its text.                                    *)
(***************************************************************************)
NoLit == [fmt |-> "none", value |-> None]
Tok(t, a, b, lit) == [t |-> t, a |-> a, b |-> b, lit |-> lit]
KW(w) == Tok("kw", w, "", NoLit)                \* MATCH MERGE CREATE WHERE AND SET
Comma == Tok("comma", ",", "", NoLit)           \* ", "
Open(var) == Tok("open", var, "", NoLit)        \* "(n"
Close == Tok("close", ")", "", NoLit)           \* ")"
Var(var) == Tok("var", var, "", NoLit)          \* "n" before labels, "r" in "[r"
Label(l) == Tok("label", l, "", NoLit)          \* ":Label"
LBrace == Tok("lbrace", "{", "", NoLit)         \* " {"
RBrace == Tok("rbrace", "}", "", NoLit)         \* "}"
Entry(k, lit) == Tok("entry", k, "", lit)       \* "k: literal"
Assign(var, k, lit) == Tok("assign", var, k, lit)  \* "var.k = literal"
Arrow(a) == Tok("arrow", a, "", NoLit)          \* "-[" "<-[" "]->" "]-"

\* A variant that quotes by the shape of the value.
PropertyValueByShape(prop) ==
    CASE prop.type = "datetime" -> [fmt |-> "datetime", value |-> prop.value]
      [] prop.value.kind = "str" -> [fmt |-> "quoted", value |-> prop.value]
      [] OTHER -> [fmt |-> "raw", value |-> prop.value]

\* GraphBuilder._get_property_value: the literal's form and the value in it.
_get_property_value(prop) ==
    CASE prop.type = "number" -> [fmt |-> "raw", value |-> prop.value]
      [] prop.type = "datetime" -> [fmt |-> "datetime", value |-> prop.value]
      [] prop.type = "list" -> [fmt |-> "raw", value |-> prop.value]
      [] OTHER -> [fmt |-> "quoted", value |-> prop.value]

\* GraphBuilder._gen_label_string
_gen_label_string(labels) == [i \in 1..Len(labels) |-> Label(labels[i])]

\* xs[1] sep xs[2] sep ... xs[n]
RECURSIVE Join(_, _)
Join(xs, sep) ==
    IF Len(xs) <= 1 THEN xs
    ELSE <<xs[1], sep>> \o Join(Tail(xs), sep)

\* GraphBuilder._gen_properties_string
_gen_properties_string(properties, dict_style, match_logic, variable, opening_statement) ==
    IF dict_style
    THEN <<LBrace>>
         \o Join([i \in 1..Len(properties) |->
                    Entry(properties[i].name, _get_property_value(properties[i]))],
                 Comma)
         \o <<RBrace>>
    ELSE (IF Len(properties) > 0
          THEN IF match_logic
               THEN IF opening_statement THEN <<KW("WHERE")>> ELSE <<>>
               ELSE <<KW("SET")>>
          ELSE <<>>)
         \o Join([i \in 1..Len(properties) |->
                    Assign(variable, properties[i].name,
                           _get_property_value(properties[i]))],
                 IF match_logic THEN KW("AND") ELSE Comma)

\* GraphBuilder._get_missing_labels
_get_missing_labels(labels, unique_labels) ==
    SelectSeq(labels, LAMBDA l : \A i \in 1..Len(unique_labels) : unique_labels[i] # l)

\* A variant that returns every property.
_get_all_props(properties, unique_properties) == properties

\* GraphBuilder._get_missing_props
_get_missing_props(properties, unique_properties) ==
    SelectSeq(properties, LAMBDA p : p.name \notin Names(unique_properties))

\* The labels appended after the pattern: ", n:L" after a SET of properties,
\* "SET n:L" otherwise.
SetLabels(not_in_unique, after_set) ==
    IF Len(not_in_unique) > 0
    THEN (IF after_set THEN <<Comma>> ELSE <<KW("SET")>>)
         \o <<Var("n")>> \o _gen_label_string(not_in_unique)
    ELSE <<>>

\* GraphBuilder._gen_standard_node_statements: [statements, raised].
_gen_standard_node_statements(node) ==
    LET not_in_unique == IF Has(node, "uniqueLabels")
                         THEN _get_missing_labels(node.labels, node.uniqueLabels)
                         ELSE <<>>
        pattern_labels == IF Has(node, "uniqueLabels")
                          THEN node.uniqueLabels ELSE node.labels
    IN  IF Has(node, "uniqueProperties")
        THEN IF ~Has(node, "properties")
             THEN [statements |-> <<>>, raised |-> TRUE]
             ELSE LET need_to_set == _get_missing_props(node.properties,
                                                        node.uniqueProperties)
                  IN  [statements |-> <<
                          <<KW("MERGE"), Open("n")>>
                          \o _gen_label_string(pattern_labels)
                          \o _gen_properties_string(node.uniqueProperties,
                                                    TRUE, FALSE, "n", TRUE)
                          \o <<Close>>
                          \o (IF Len(need_to_set) > 0
                              THEN _gen_properties_string(need_to_set,
                                                          FALSE, FALSE, "n", TRUE)
                              ELSE <<>>)
                          \o SetLabels(not_in_unique, Len(need_to_set) > 0) >>,
                       raised |-> FALSE]
        ELSE [statements |-> <<
                <<KW(IF Has(node, "uniqueLabels") THEN "MERGE" ELSE "CREATE"),
                  Open("n")>>
                \o _gen_label_string(pattern_labels)
                \o (IF Has(node, "properties")
                    THEN _gen_properties_string(node.properties,
                                                TRUE, FALSE, "n", TRUE)
                    ELSE <<>>)
                \o <<Close>>
                \o SetLabels(not_in_unique, FALSE) >>,
              raised |-> FALSE]

\* The statement of one instance in _gen_iterator_node_statements:
\* [statements, raised].  need_to_set reads each non-unique property from
\* instance['uniqueProperties'], which does not hold it (KeyError).
IteratorInstanceStatement(instance) ==
    LET not_in_unique == IF Has(instance, "uniqueLabels")
                         THEN _get_missing_labels(instance.labels,
                                                  instance.uniqueLabels)
                         ELSE <<>>
        pattern_labels == IF Has(instance, "uniqueLabels")
                          THEN instance.uniqueLabels ELSE instance.labels
    IN  IF Has(instance, "uniqueProperties")
        THEN IF ~Has(instance, "properties")
                \/ Len(_get_missing_props(instance.properties,
                                          instance.uniqueProperties)) > 0
             THEN [statements |-> <<>>, raised |-> TRUE]
             ELSE [statements |-> <<
                      <<KW("MERGE"), Open("n")>>
                      \o _gen_label_string(pattern_labels)
                      \o _gen_properties_string(instance.uniqueProperties,
                                                TRUE, FALSE, "n", TRUE)
                      \o <<Close>>
                      \o SetLabels(not_in_unique, FALSE) >>,
                   raised |-> FALSE]
        ELSE [statements |-> <<
                <<KW(IF Has(instance, "uniqueLabels") THEN "MERGE" ELSE "CREATE"),
                  Open("n")>>
                \o _gen_label_string(pattern_labels)
                \o (IF Has(instance, "properties")
                    THEN _gen_properties_string(instance.properties,
                                                TRUE, FALSE, "n", TRUE)
                    ELSE <<>>)
                \o <<Close>>
                \o SetLabels(not_in_unique, FALSE) >>,
              raised |-> FALSE]

\* Statement lists are built by appending; an exception ends the building.
\* acc = [statements, raised].
Extend(acc, r) ==
    [statements |-> acc.statements \o r.statements, raised |-> r.raised]

NoStatements == [statements |-> <<>>, raised |-> FALSE]

RECURSIVE IteratorNodeStatementsFrom(_, _, _)
IteratorNodeStatementsFrom(instances, i, acc) ==
    IF i > Len(instances) THEN acc
    ELSE Let(Extend(acc, IteratorInstanceStatement(instances[i])), LAMBDA next :
            IF next.raised THEN next
            ELSE IteratorNodeStatementsFrom(instances, i + 1, next))

\* GraphBuilder._gen_iterator_node_statements: [statements, raised].
_gen_iterator_node_statements(node) ==
    IteratorNodeStatementsFrom(node.instances, 1, NoStatements)

RECURSIVE NodeStatementsFrom(_, _, _)
NodeStatementsFrom(nodes, i, acc) ==
    IF i > Len(nodes) THEN acc
    ELSE Let(Extend(acc, IF nodes[i].nodeType = "iterator"
                         THEN _gen_iterator_node_statements(nodes[i])
                         ELSE _gen_standard_node_statements(nodes[i])),
             LAMBDA next :
                IF next.raised THEN next
                ELSE NodeStatementsFrom(nodes, i + 1, next))

\* GraphBuilder._gen_node_statements: [statements, raised].
_gen_node_statements(nodes) == NodeStatementsFrom(nodes, 1, NoStatements)

\* "MATCH (s:..), (d:..) [WHERE ..]" as the three relationship generators
\* build it from the source and destination endpoints (a compiled node or one
\* instance of it).  The destination's conditions are taken from its
\* properties in both branches of the code.
MatchClause(source, destination) ==
    LET first_has_props == Has(source, "uniqueProperties")
                           \/ Has(source, "properties")
    IN  <<KW("MATCH"), Open("s")>>
        \o _gen_label_string(IF Has(source, "uniqueLabels")
                             THEN source.uniqueLabels ELSE source.labels)
        \o <<Close, Comma, Open("d")>>
        \o _gen_label_string(IF Has(destination, "uniqueLabels")
                             THEN destination.uniqueLabels ELSE destination.labels)
        \o <<Close>>
        \o (CASE Has(source, "uniqueProperties") ->
                    _gen_properties_string(source.uniqueProperties,
                                           FALSE, TRUE, "s", TRUE)
              [] Has(source, "properties") ->
                    _gen_properties_string(source.properties,
                                           FALSE, TRUE, "s", TRUE)
              [] OTHER -> <<>>)
        \o (IF first_has_props THEN <<KW("AND")>> ELSE <<>>)
        \o (IF Has(destination, "uniqueProperties") \/ Has(destination, "properties")
            THEN _gen_properties_string(destination.properties,
                                        FALSE, TRUE, "d", ~first_has_props)
            ELSE <<>>)

\* A variant that looks at the presence of the unique flag, not its value.
EdgeUniqueFlagPresent(rel) ==
    Has(rel, "unique") \/ Has(rel, "uniqueProperties")

\* Whether the edge is merged: the unique flag, or uniqueProperties.
EdgeUnique(rel) ==
    (Has(rel, "unique") /\ rel.unique) \/ Has(rel, "uniqueProperties")

\* A variant that draws every arrow from s to d.
ForwardAlways(rel) == TRUE

\* The arrow runs from s to d: directionality == ">".
Forward(rel) == rel.directionality = ">"

\* "MERGE|CREATE (s)-[r:TYPE {..}]->(d) [SET r...]" for a compiled
\* relationship or one instance of it.
EdgeClause(rel) ==
    LET unique == EdgeUnique(rel)
        inline == unique /\ Has(rel, "uniqueProperties")
        need_to_set == IF inline
                       THEN _get_missing_props(rel.properties, rel.uniqueProperties)
                       ELSE <<>>
        forward == Forward(rel)
    IN  <<KW(IF unique THEN "MERGE" ELSE "CREATE"), Open("s"), Close>>
        \o <<Arrow(IF forward THEN "-[" ELSE "<-["), Var("r"), Label(rel.type)>>
        \o (IF inline
            THEN _gen_properties_string(rel.uniqueProperties, TRUE, FALSE, "n", TRUE)
            ELSE <<>>)
        \o <<Arrow(IF forward THEN "]->" ELSE "]-"), Open("d"), Close>>
        \o (CASE Len(need_to_set) > 0 ->
                    _gen_properties_string(need_to_set, FALSE, FALSE, "r", TRUE)
              [] ~unique /\ Has(rel, "properties") ->
                    _gen_properties_string(rel.properties, FALSE, FALSE, "r", TRUE)
              [] OTHER -> <<>>)

\* GraphBuilder._gen_standard_relationship_statements: [statements, raised].
_gen_standard_relationship_statements(relationship) ==
    [statements |-> << MatchClause(relationship.sourceNode,
                                   relationship.destinationNode)
                       \o EdgeClause(relationship) >>,
     raised |-> FALSE]

\* zip(node instances, relationship instances)
Zip(xs, ys) ==
    [i \in 1..(IF Len(xs) < Len(ys) THEN Len(xs) ELSE Len(ys)) |-> <<xs[i], ys[i]>>]

\* GraphBuilder._gen_iterative_relationship_statements: [statements, raised].
_gen_iterative_relationship_statements(relationship) ==
    IF relationship.sourceNode.nodeType = "iterator"
    THEN LET pairs == Zip(relationship.sourceNode.instances, relationship.instances)
         IN  [statements |->
                [i \in 1..Len(pairs) |->
                    MatchClause(pairs[i][1], relationship.destinationNode)
                    \o EdgeClause(pairs[i][2])],
              raised |-> FALSE]
    ELSE IF ~Has(relationship.destinationNode, "instances")
         THEN [statements |-> <<>>, raised |-> TRUE]
         ELSE LET pairs == Zip(relationship.destinationNode.instances,
                               relationship.instances)
              IN  [statements |->
                     [i \in 1..Len(pairs) |->
                        MatchClause(relationship.sourceNode, pairs[i][1])
                        \o EdgeClause(pairs[i][2])],
                   raised |-> FALSE]

RECURSIVE RelationshipStatementsFrom(_, _, _)
RelationshipStatementsFrom(relationships, i, acc) ==
    IF i > Len(relationships) THEN acc
    ELSE Let(Extend(acc, IF relationships[i].relationshipType = "iterator"
                         THEN _gen_iterative_relationship_statements(relationships[i])
                         ELSE _gen_standard_relationship_statements(relationships[i])),
             LAMBDA next :
                IF next.raised THEN next
                ELSE RelationshipStatementsFrom(relationships, i + 1, next))

\* GraphBuilder._gen_relationship_statements: [statements, raised].
_gen_relationship_statements(relationships) ==
    RelationshipStatementsFrom(relationships, 1, NoStatements)

\* GraphBuilder._gen_statements: [node_statements, relationship_statements,
\* raised]; the relationship statements are generated after the node's.
_gen_statements(nodes, relationships) ==
    Let(_gen_node_statements(nodes), LAMBDA ns :
        Let(IF ns.raised THEN NoStatements
            ELSE _gen_relationship_statements(relationships),
            LAMBDA rs :
                [node_statements |-> ns.statements,
                 relationship_statements |-> rs.statements,
                 raised |-> ns.raised \/ rs.raised]))

(***************************************************************************)
(* Document pipeline                                                       *)
(***************************************************************************)
\* The processor modules the builder loaded, in the order it loaded them;
\* each is known by the name of its transform.
VARIABLES
    pre_modules,                \* GraphBuilder._pre_modules
    post_node_modules,          \* GraphBuilder._post_node_modules
    post_relationship_modules   \* GraphBuilder._post_relationship_modules

\* module.pre_process_doc of a processor: the document in, the document out.
PreHook(name, doc) ==
    CASE name = "set_a" -> Rec([a |-> Str(<<"x">>)] @@ doc.v)
      [] name = "copy_a_to_b" ->
            IF "a" \in DOMAIN doc.v
            THEN Rec([b |-> doc.v["a"]] @@ doc.v) ELSE doc
      [] OTHER -> doc

\* module.post_process_nodes of a processor: the node list in and out.
PostNodeHook(name, nodes) ==
    CASE name = "drop_n2" -> SelectSeq(nodes, LAMBDA n : n.id # "n2")
      [] name = "add_label" ->
            [k \in 1..Len(nodes) |->
                [nodes[k] EXCEPT !.labels = Append(@, "Z")]]
      [] name = "n1_as_n2" ->
            [k \in 1..Len(nodes) |->
                IF nodes[k].id = "n1" THEN [nodes[k] EXCEPT !.id = "n2"]
                ELSE nodes[k]]
      [] OTHER -> nodes

\* module.post_process_relationships of a processor: the relationship list
\* in and out.
PostRelationshipHook(name, relationships) ==
    CASE name = "twice" -> relationships \o relationships
      [] name = "first_only" ->
            IF relationships = <<>> THEN <<>> ELSE <<relationships[1]>>
      [] OTHER -> relationships

\* for module in modules: x = module.transform(x), from module i on.
RECURSIVE Chain(_, _, _, _)
Chain(Hook(_, _), modules, i, x) ==
    IF i > Len(modules) THEN x
    ELSE Let(Hook(modules[i], x), LAMBDA y : Chain(Hook, modules, i + 1, y))

\* A variant that runs the pre-processors from the last one loaded to the
\* first.
PreProcessReversed(doc) ==
    Chain(PreHook,
          [k \in 1..Len(pre_modules) |-> pre_modules[Len(pre_modules) + 1 - k]],
          1, doc)

\* GraphBuilder._pre_process_doc
_pre_process_doc(doc) == Chain(PreHook, pre_modules, 1, doc)

\* GraphBuilder._post_process_nodes
_post_process_nodes(nodes) == Chain(PostNodeHook, post_node_modules, 1, nodes)

\* GraphBuilder._post_process_relationships
_post_process_relationships(relationships) ==
    Chain(PostRelationshipHook, post_relationship_modules, 1, relationships)

\* The stages one document went through: the hooks by name, the compilers as
\* "nodes" and "relationships".
Stages(stage, modules) ==
    [k \in 1..Len(modules) |-> [stage |-> stage, module |-> modules[k]]]

\* A variant of the loop body that keeps a document's nodes although its
\* relationships were invalid.
ProcessDocPartial(m, doc) ==
    Let(_pre_process_doc(doc), LAMBDA pre :
    Let(_gen_nodes(m, pre), LAMBDA n :
    Let(IF n.valid /\ ~n.raised THEN _post_process_nodes(n.nodes) ELSE <<>>,
        LAMBDA doc_nodes :
        Let(IF n.valid /\ ~n.raised
            THEN _gen_relationships(m, pre, doc_nodes)
            ELSE [relationships |-> <<>>, valid |-> FALSE, raised |-> FALSE],
            LAMBDA r :
                [nodes |-> IF n.valid /\ ~n.raised /\ ~r.raised
                           THEN doc_nodes ELSE <<>>,
                 relationships |-> IF n.valid /\ ~n.raised /\ ~r.raised
                                   THEN _post_process_relationships(r.relationships)
                                   ELSE <<>>,
                 nodes_valid |-> n.valid,
                 rels_valid |-> r.valid,
                 raised |-> n.raised \/ r.raised,
                 stages |-> <<>>]))))

\* One iteration of the loop in GraphBuilder._process, on the document's
\* _source: what the document adds to the batch output, and the stages it
\* went through.
\* [nodes, relationships, nodes_valid, rels_valid, raised, stages]
ProcessDoc(m, doc) ==
    Let(_pre_process_doc(doc), LAMBDA pre :
    Let(_gen_nodes(m, pre), LAMBDA n :
    Let(n.valid /\ ~n.raised, LAMBDA nodes_ok :
    Let(IF nodes_ok THEN _post_process_nodes(n.nodes) ELSE <<>>,
        LAMBDA doc_nodes :
        Let(IF nodes_ok
            THEN _gen_relationships(m, pre, doc_nodes)
            ELSE [relationships |-> <<>>, valid |-> FALSE, raised |-> FALSE],
            LAMBDA r :
                Let(nodes_ok /\ r.valid /\ ~r.raised, LAMBDA ok :
                    [nodes |-> IF ok THEN doc_nodes ELSE <<>>,
                     relationships |->
                        IF ok THEN _post_process_relationships(r.relationships)
                        ELSE <<>>,
                     nodes_valid |-> n.valid,
                     rels_valid |-> r.valid,
                     raised |-> n.raised \/ r.raised,
                     stages |->
                        Stages("pre", pre_modules)
                        \o <<[stage |-> "nodes", module |-> ""]>>
                        \o (IF nodes_ok
                            THEN Stages("post_node", post_node_modules)
                                 \o <<[stage |-> "relationships", module |-> ""]>>
                            ELSE <<>>)
                        \o (IF ok
                            THEN Stages("post_relationship",
                                        post_relationship_modules)
                            ELSE <<>>)]))))))

(***************************************************************************)
(* The graph store behind _run_statement.  MERGE matches the elements the  *)
(* pattern describes, or creates one when there is none; CREATE always     *)
(* creates one; SET then updates every element the statement bound.        *)
(* A graph is [nodes, edges]: nodes are [labels, props], edges             *)
(* [from, to, type, props] with from and to positions in nodes.            *)
(***************************************************************************)
EmptyGraph == [nodes |-> <<>>, edges |-> <<>>]

\* Positions of a statement holding a token of kind t, between lo and hi.
Positions(stmt, t, lo, hi) ==
    {i \in lo..hi : i \in 1..Len(stmt) /\ stmt[i].t = t}

MinOf(S) == CHOOSE x \in S : \A y \in S : x <= y

\* The first closing parenthesis at or after position lo.
CloseAfter(stmt, lo) == MinOf({i \in lo..Len(stmt) : stmt[i] = Close})

\* The position of the MERGE or CREATE keyword of a statement.
WritePos(stmt) ==
    MinOf({i \in 1..Len(stmt) : stmt[i] \in {KW("MERGE"), KW("CREATE")}})

\* The labels written between positions lo and hi.
LabelsIn(stmt, lo, hi) == {stmt[i].a : i \in Positions(stmt, "label", lo, hi)}

\* The map {k: literal} written between positions lo and hi.
EntriesIn(stmt, lo, hi) ==
    [k \in {stmt[i].a : i \in Positions(stmt, "entry", lo, hi)} |->
        stmt[CHOOSE i \in Positions(stmt, "entry", lo, hi) : stmt[i].a = k].lit]

\* The assignments or conditions var.k = literal between positions lo and hi;
\* of two on the same key the later one stands.
AssignsIn(stmt, var, lo, hi) ==
    [k \in {stmt[i].b : i \in {j \in Positions(stmt, "assign", lo, hi) :
                                    stmt[j].a = var}} |->
        stmt[CHOOSE i \in Positions(stmt, "assign", lo, hi) :
                /\ stmt[i].a = var /\ stmt[i].b = k
                /\ \A j \in Positions(stmt, "assign", lo, hi) :
                        stmt[j].a = var /\ stmt[j].b = k => j <= i].lit]

\* An element carries the labels and has the property values asked for.
Matches(element, labels, props) ==
    /\ labels \subseteq element.labels
    /\ \A k \in DOMAIN props :
            k \in DOMAIN element.props /\ element.props[k] = props[k]

\* SET on one element.
Updated(element, labels, props) ==
    [element EXCEPT !.labels = @ \cup labels, !.props = props @@ @]

\* A node statement on graph g.
RunNodeStatement(g, stmt) ==
    Let([close |-> CloseAfter(stmt, 1)], LAMBDA at :
    Let([labels |-> LabelsIn(stmt, 1, at.close),
         props |-> EntriesIn(stmt, 1, at.close),
         set_labels |-> LabelsIn(stmt, at.close, Len(stmt)),
         set_props |-> AssignsIn(stmt, "n", at.close, Len(stmt))],
        LAMBDA q :
            IF stmt[1] = KW("MERGE")
               /\ \E i \in 1..Len(g.nodes) : Matches(g.nodes[i], q.labels, q.props)
            THEN [g EXCEPT !.nodes =
                    [i \in 1..Len(g.nodes) |->
                        IF Matches(g.nodes[i], q.labels, q.props)
                        THEN Updated(g.nodes[i], q.set_labels, q.set_props)
                        ELSE g.nodes[i]]]
            ELSE [g EXCEPT !.nodes =
                    Append(@, Updated([labels |-> q.labels, props |-> q.props],
                                      q.set_labels, q.set_props))]))

\* The edge clause of a relationship statement on one matched pair (s, d).
RunEdge(g, q, s, d) ==
    Let([from |-> IF q.forward THEN s ELSE d,
         to |-> IF q.forward THEN d ELSE s],
        LAMBDA e :
            IF q.merge
               /\ \E i \in 1..Len(g.edges) :
                    /\ g.edges[i].from = e.from /\ g.edges[i].to = e.to
                    /\ Matches(g.edges[i], {q.type}, q.props)
            THEN [g EXCEPT !.edges =
                    [i \in 1..Len(g.edges) |->
                        IF /\ g.edges[i].from = e.from /\ g.edges[i].to = e.to
                           /\ Matches(g.edges[i], {q.type}, q.props)
                        THEN Updated(g.edges[i], {}, q.set_props)
                        ELSE g.edges[i]]]
            ELSE [g EXCEPT !.edges =
                    Append(@, Updated([from |-> e.from, to |-> e.to,
                                       labels |-> {q.type}, props |-> q.props],
                                      {}, q.set_props))])

\* The edge clause on every pair the MATCH clause bound, pair k of n * n on.
RECURSIVE RunPairs(_, _, _, _)
RunPairs(g, q, n, k) ==
    IF k > n * n
    THEN g
    ELSE Let([s |-> ((k - 1) \div n) + 1, d |-> ((k - 1) % n) + 1], LAMBDA pair :
            IF /\ Matches(g.nodes[pair.s], q.s_labels, q.s_props)
               /\ Matches(g.nodes[pair.d], q.d_labels, q.d_props)
            THEN Let(RunEdge(g, q, pair.s, pair.d), LAMBDA next :
                    RunPairs(next, q, n, k + 1))
            ELSE RunPairs(g, q, n, k + 1))

\* A relationship statement on graph g.
RunRelationshipStatement(g, stmt) ==
    Let([s_close |-> CloseAfter(stmt, 1),
         d_close |-> CloseAfter(stmt, CloseAfter(stmt, 1) + 1),
         write |-> WritePos(stmt)],
        LAMBDA at :
            RunPairs(g,
                     [s_labels |-> LabelsIn(stmt, 1, at.s_close),
                      d_labels |-> LabelsIn(stmt, at.s_close, at.d_close),
                      s_props |-> AssignsIn(stmt, "s", at.d_close, at.write),
                      d_props |-> AssignsIn(stmt, "d", at.d_close, at.write),
                      merge |-> stmt[at.write] = KW("MERGE"),
                      forward |-> \E i \in at.write..Len(stmt) : stmt[i] = Arrow("-["),
                      type |-> CHOOSE l \in LabelsIn(stmt, at.write, Len(stmt)) : TRUE,
                      props |-> EntriesIn(stmt, at.write, Len(stmt)),
                      set_props |-> AssignsIn(stmt, "r", at.write, Len(stmt))],
                     Len(g.nodes), 1))

\* GraphBuilder._run_statement: tx.run(statement) on the store.
_run_statement(g, stmt) ==
    IF stmt[1] = KW("MATCH")
    THEN RunRelationshipStatement(g, stmt)
    ELSE RunNodeStatement(g, stmt)

(***************************************************************************)
(* Bounds                                                                  *)
(***************************************************************************)
MaxPolls == 1       \* empty polls the run sleeps on before the model stops it
MaxFaults == 1      \* statements the sink fails on its own in one run
MaxArray == 2       \* longest array in a document
MaxDocs == 2        \* documents in the index

(***************************************************************************)
(* The run: _execute of elastic2neo.py driving ElasticScroller.scroll and *)
(* GraphBuilder.build.                                                     *)
(***************************************************************************)
VARIABLES
    mapping,        \* GraphBuilder._mapping
    index,          \* the documents the source has not returned yet
    responses,      \* what the source may answer a call with in this run
    _sid,           \* ElasticScroller._sid
    calls,          \* history: the calls scroll() made to the source
    size,           \* ElasticScroller._size
    scroll,         \* _execute(scroll=...): keep polling?
    end_after_empty,\* _execute(end_after_empty=...)
    execute,        \* _execute(execute=...)
    faults,         \* how many more statements the sink may fail on its own
    pc,             \* where _execute is
    data,           \* the batch scroll() returned
    di,             \* documents of the batch _process has compiled
    nodes,          \* _process: nodes
    relationships,  \* _process: relationships
    node_statements,
    relationship_statements,
    si,             \* statements of the batch _execute_statements has run
    batch,          \* number of the batch in hand
    polls,          \* empty polls slept on
    closed,         \* calls of builder.close()
    outcome,        \* "running", "ended", "interrupted", "error"
    graph,          \* the graph the sink holds
    graphs,         \* history: the graph as each build left it
    contrib,        \* history: what each document of the batch added
    events          \* history: what the run did, in order

vars == <<mapping, pre_modules, post_node_modules, post_relationship_modules,
          index, responses, _sid, calls, size, scroll, end_after_empty, execute, faults, pc,
          data, di, nodes, relationships, node_statements,
          relationship_statements, si, batch, polls, closed, outcome, graph,
          graphs, contrib, events>>

modules == <<pre_modules, post_node_modules, post_relationship_modules>>
config == <<mapping, modules, responses, size, scroll, end_after_empty,
           execute>>
cursor == <<_sid, calls>>
build_vars == <<data, di, nodes, relationships, node_statements,
                relationship_statements, si, contrib>>
store == <<graph, graphs>>

Event(e, k, list, stmt) ==
    [e |-> e, batch |-> batch, k |-> k, list |-> list, stmt |-> stmt]

Min(a, b) == IF a < b THEN a ELSE b

\* A variant that runs the relationship statements first.
RelationshipsFirst == relationship_statements \o node_statements

\* _execute_statements runs the node statements, then the relationship
\* statements.
AllStatements == node_statements \o relationship_statements

\* The sink refuses a statement it cannot parse: an AND with no condition
\* after it.
SinkRejects(stmt) ==
    \E i \in 1..Len(stmt) :
        /\ stmt[i] = KW("AND")
        /\ (i = Len(stmt) \/ stmt[i + 1].t # "assign")

\* A variant that lets build return before the loops are over.
BatchDoneEarly == si >= 0

\* The for loops of _execute_statements have run every statement.
BatchDone == si = Len(AllStatements)

\* The for loop of _process has compiled every document of the batch.
ProcessDone == di = Len(data)

\* self._sid = None
NoSid == ""

\* The scroll ids the source hands out.
ScrollIds == {"c1", "c2"}

\* The call to the source fails: the client raises, or the index does not
\* exist and _init_scroll returns None, on which scroll() raises.
Raises == "raise"

\* A variant of the request scroll() makes that always searches anew.
RequestAlwaysSearch(sid) == "search"

\* The request scroll() makes: the initial search without a scroll id, the
\* continuation of the scroll with one.
Request(sid) == IF sid = NoSid THEN "search" ELSE "scroll"

\* A variant that takes every batch for one with documents.
HasDataAlways(page) == TRUE

\* if len(data):
HasData(page) == Len(page) > 0

\* data = scroller.scroll(), and what _execute does with it.  A response with
\* a scroll id stores the id and returns the next page of the index; one
\* without unsets the id and returns None, on which len(data), or the loop of
\* _process, raises.
Scroll ==
    /\ pc = "scroll"
    /\ \E resp \in responses :
        \E page \in {IF resp \in ScrollIds
                     THEN SubSeq(index, 1, Min(size, Len(index))) ELSE <<>>} :
           /\ calls' = Append(calls, [request |-> Request(_sid),
                                      scroll_id |-> _sid,
                                      response |-> resp,
                                      returned |-> IF resp \in ScrollIds
                                                   THEN "hits" ELSE "None"])
           /\ _sid' = CASE resp \in ScrollIds -> resp
                        [] resp = NoSid -> NoSid
                        [] OTHER -> _sid
           /\ data' = page
           /\ index' = SubSeq(index, Len(page) + 1, Len(index))
           /\ batch' = batch + 1
           /\ events' = Append(events,
                            [Event(IF resp \in ScrollIds
                                   THEN "scroll" ELSE "scroll_failed",
                                   Len(page), "", <<>>)
                                EXCEPT !.batch = batch + 1])
           /\ IF resp \notin ScrollIds
              THEN /\ pc' = "finally"
                   /\ outcome' = "error"
              ELSE IF HasData(page) \/ ~scroll
              THEN /\ pc' = "process"
                   /\ outcome' = outcome
              ELSE IF end_after_empty
                   THEN /\ pc' = "finally"
                        /\ outcome' = "ended"
                   ELSE /\ pc' = "sleep"
                        /\ outcome' = outcome
    /\ di' = 0
    /\ nodes' = <<>>
    /\ relationships' = <<>>
    /\ node_statements' = <<>>
    /\ relationship_statements' = <<>>
    /\ si' = 0
    /\ contrib' = <<>>
    /\ UNCHANGED <<config, faults, polls, closed, store>>

\* sleep(sleep_delay*60), then the loop polls again.
Sleep ==
    /\ pc = "sleep"
    /\ polls < MaxPolls
    /\ polls' = polls + 1
    /\ pc' = "scroll"
    /\ events' = Append(events, Event("sleep", polls + 1, "", <<>>))
    /\ UNCHANGED <<config, cursor, index, faults, build_vars, batch, closed, outcome,
                   store>>

\* _process: one document of the batch.
Process ==
    /\ pc = "process"
    /\ ~ProcessDone
    /\ \E r \in {ProcessDoc(mapping, data[di + 1])} :
           /\ contrib' = Append(contrib, r)
           /\ events' = Append(events, Event("compile", di + 1, "", <<>>))
           /\ IF r.raised
              THEN /\ pc' = "finally"
                   /\ outcome' = "error"
                   /\ UNCHANGED <<nodes, relationships, di>>
              ELSE /\ nodes' = nodes \o r.nodes
                   /\ relationships' = relationships \o r.relationships
                   /\ di' = di + 1
                   /\ UNCHANGED <<pc, outcome>>
    /\ UNCHANGED <<config, cursor, index, faults, data, node_statements,
                   relationship_statements, si, batch, polls, closed, store>>

\* build: _gen_statements once _process has returned.
Generate ==
    /\ pc = "process"
    /\ ProcessDone
    /\ \E g \in {_gen_statements(nodes, relationships)} :
           /\ events' = Append(events,
                            Event("generate",
                                  Len(g.node_statements)
                                  + Len(g.relationship_statements), "", <<>>))
           /\ IF g.raised
              THEN /\ pc' = "finally"
                   /\ outcome' = "error"
                   /\ UNCHANGED <<node_statements, relationship_statements>>
              ELSE /\ node_statements' = g.node_statements
                   /\ relationship_statements' = g.relationship_statements
                   /\ pc' = IF execute THEN "execute" ELSE "built"
                   /\ UNCHANGED outcome
    /\ UNCHANGED <<config, cursor, index, faults, data, di, nodes, relationships, si,
                   batch, polls, closed, contrib, store>>

\* _execute_statements: the sink runs the next statement.
Execute ==
    /\ pc = "execute"
    /\ ~BatchDone
    /\ ~SinkRejects(AllStatements[si + 1])
    /\ si' = si + 1
    /\ graph' = _run_statement(graph, AllStatements[si + 1])
    /\ events' = Append(events,
                    Event("exec", si + 1,
                          IF si < Len(node_statements) THEN "node" ELSE "rel",
                          AllStatements[si + 1]))
    /\ UNCHANGED <<config, cursor, index, faults, pc, data, di, nodes, relationships,
                   node_statements, relationship_statements, batch, polls,
                   closed, outcome, contrib, graphs>>

\* _execute_statements: write_transaction raises on the next statement; nothing
\* on the way up catches it.
StatementFails ==
    /\ pc = "execute"
    /\ ~BatchDone
    /\ \/ /\ SinkRejects(AllStatements[si + 1])
          /\ UNCHANGED faults
       \/ /\ ~SinkRejects(AllStatements[si + 1])
          /\ faults > 0
          /\ faults' = faults - 1
    /\ events' = Append(events,
                    Event("fail", si + 1,
                          IF si < Len(node_statements) THEN "node" ELSE "rel",
                          AllStatements[si + 1]))
    /\ pc' = "finally"
    /\ outcome' = "error"
    /\ UNCHANGED <<config, cursor, index, build_vars, batch, polls, closed, store>>

\* build has returned: the loop polls again, or the single scroll is over.
EndBuild ==
    /\ \/ pc = "execute" /\ BatchDone
       \/ pc = "built"
    /\ IF scroll
       THEN /\ pc' = "scroll"
            /\ UNCHANGED outcome
       ELSE /\ pc' = "finally"
            /\ outcome' = "ended"
    /\ events' = Append(events, Event("built", si, "", <<>>))
    /\ graphs' = Append(graphs, graph)
    /\ UNCHANGED <<config, cursor, index, faults, build_vars, batch, polls, closed,
                   graph>>

\* KeyboardInterrupt, wherever the try block is.
Interrupt ==
    /\ pc \in {"scroll", "sleep", "process", "execute", "built"}
    /\ pc' = "finally"
    /\ outcome' = "interrupted"
    /\ events' = Append(events, Event("interrupt", si, pc, <<>>))
    /\ UNCHANGED <<config, cursor, index, faults, build_vars, batch, polls, closed,
                   store>>

\* A variant that closes the sink at the end of the try block, not in a
\* finally block: an exception leaves without closing.
CloseSinkUnlessError ==
    /\ pc = "finally"
    /\ closed' = IF outcome = "error" THEN closed ELSE closed + 1
    /\ pc' = "done"
    /\ events' = Append(events, Event("close", si, "", <<>>))
    /\ UNCHANGED <<config, cursor, index, faults, build_vars, batch, polls,
                   outcome, store>>

\* finally: builder.close()
CloseSink ==
    /\ pc = "finally"
    /\ closed' = closed + 1
    /\ pc' = "done"
    /\ events' = Append(events, Event("close", si, "", <<>>))
    /\ UNCHANGED <<config, cursor, index, faults, build_vars, batch, polls, outcome,
                   store>>

Next ==
    \/ Scroll
    \/ Sleep
    \/ Process
    \/ Generate
    \/ Execute
    \/ StatementFails
    \/ EndBuild
    \/ Interrupt
    \/ CloseSink

\* A source that answers every call with the same scroll id.
WellBehaved == {"c1"}

\* The processors directory holds no module.
NoModules ==
    /\ pre_modules = <<>>
    /\ post_node_modules = <<>>
    /\ post_relationship_modules = <<>>

Start ==
    /\ pc = "scroll"
    /\ _sid = NoSid
    /\ calls = <<>>
    /\ data = <<>>
    /\ di = 0
    /\ nodes = <<>>
    /\ relationships = <<>>
    /\ node_statements = <<>>
    /\ relationship_statements = <<>>
    /\ si = 0
    /\ batch = 0
    /\ polls = 0
    /\ closed = 0
    /\ outcome = "running"
    /\ graph = EmptyGraph
    /\ graphs = <<>>
    /\ contrib = <<>>
    /\ events = <<>>

(***************************************************************************)
(* Inputs: mappings and documents                                          *)
(***************************************************************************)
Prop(name, key, type) == [name |-> name, key |-> key, type |-> type]

Text(c) == Str(<<c>>)

\* [1, 2, .., n]
Array(n) == Lst([i \in 1..n |-> Num(i)])

\* Documents: "a" and "b" are text fields, "t" an array, "n" a number or a
\* nested record; one document has a field that is itself named ITER!.
DocsGen ==
    {Rec(f @@ g @@ h) :
        f \in {<<>>, [a |-> Text("x")]},
        g \in {<<>>, [b |-> Text("y")]},
        h \in {[t |-> Array(MaxArray), n |-> Num(7)]}}
    \cup {Rec([a |-> Text("x"), b |-> Text("y")] @@ h) :
            h \in {<<>>, [t |-> Array(MaxArray)] @@ ("ITER!" :> Num(9)),
                   [t |-> Array(MaxArray), n |-> Rec([b |-> Text("y")])]}
                  \cup {[t |-> Array(n)] : n \in 0..(MaxArray - 1)}}

DocFull == Rec([a |-> Text("x"), b |-> Text("y"), t |-> Array(MaxArray),
                n |-> Num(7)])

\* The optional keys of a node definition over the properties p and q.
NodePropCfgs(pkey, qkey) ==
    LET one == <<Prop("p", pkey, "string")>>
        two == <<Prop("p", pkey, "string"), Prop("q", qkey, "number")>>
    IN  { <<>>,
          [properties |-> one],
          [properties |-> one, uniqueProperties |-> {"p"}],
          [properties |-> two, uniqueProperties |-> {"p"}],
          [properties |-> two, uniqueProperties |-> {"p"},
           requiredProperties |-> {"p"}],
          [properties |-> two, requiredProperties |-> {"q"}],
          [properties |-> two, uniqueProperties |-> {"p", "q"}],
          [properties |-> two, uniqueProperties |-> {"q"},
           requiredProperties |-> {"p"}] }

NodeDefsGen ==
    {cfg @@ ul @@ [id |-> "n1", nodeType |-> "standard",
                   labels |-> <<"A", "B">>, required |-> rq] :
        cfg \in NodePropCfgs(<<"a">>, <<"b">>),
        ul \in {<<>>, [uniqueLabels |-> <<"A">>]},
        rq \in BOOLEAN}
    \cup
    {cfg @@ ul @@ [id |-> "n1", nodeType |-> "iterator", iterator |-> <<"t">>,
                   labels |-> <<"A", "B">>, required |-> rq] :
        cfg \in NodePropCfgs(<<"a">>, <<"ITER!">>),
        ul \in {<<>>, [uniqueLabels |-> <<"A">>]},
        rq \in BOOLEAN}

\* The other endpoint: a standard node.
OtherNodes ==
    {cfg @@ [id |-> "n2", nodeType |-> "standard", labels |-> <<"C">>,
             required |-> FALSE] :
        cfg \in { <<>>,
                  [properties |-> <<Prop("k", <<"a">>, "string")>>,
                   uniqueProperties |-> {"k"}],
                  [properties |-> <<Prop("k", <<"a">>, "string"),
                                    Prop("m", <<"b">>, "string")>>,
                   uniqueProperties |-> {"k"}] }}

RelPropCfgs ==
    LET one == <<Prop("w", <<"a">>, "string")>>
        two == <<Prop("w", <<"a">>, "string"), Prop("z", <<"b">>, "datetime")>>
    IN  { <<>>,
          [properties |-> one],
          [properties |-> one, uniqueProperties |-> {"w"}],
          [properties |-> two, uniqueProperties |-> {"w"}],
          [properties |-> two, uniqueProperties |-> {"w"},
           requiredProperties |-> {"z"}] }

RelDefsGen ==
    {cfg @@ un @@ [type |-> "KNOWS", relationshipType |-> ty,
                   directionality |-> dir, sourceNode |-> ends[1],
                   destinationNode |-> ends[2], required |-> rq] :
        cfg \in RelPropCfgs,
        un \in {<<>>, [unique |-> TRUE], [unique |-> FALSE]},
        ty \in {"standard", "iterator"},
        dir \in {">", "<"},
        ends \in {<<"n1", "n2">>, <<"n2", "n1">>},
        rq \in BOOLEAN}

Mapping(ns, rs) ==
    [index |-> "docs", docType |-> "doc", nodes |-> ns, relationships |-> rs]

NodeRef == CHOOSE n \in NodeDefsGen :
    /\ n.nodeType = "standard" /\ n.required /\ ~Has(n, "uniqueLabels")
    /\ Has(n, "properties") /\ Len(n.properties) = 2
    /\ Has(n, "uniqueProperties") /\ n.uniqueProperties = {"p"}
    /\ ~Has(n, "requiredProperties")

OtherRef == CHOOSE n \in OtherNodes :
    Has(n, "properties") /\ Len(n.properties) = 1

RelRef == CHOOSE r \in RelDefsGen :
    /\ r.relationshipType = "standard" /\ r.directionality = ">"
    /\ r.sourceNode = "n1" /\ r.required /\ ~Has(r, "unique")
    /\ Has(r, "properties") /\ Len(r.properties) = 2
    /\ ~Has(r, "requiredProperties")

\* An iterator node keyed by the array element, and its relationship.
IterRef == CHOOSE n \in NodeDefsGen :
    /\ n.nodeType = "iterator" /\ n.required /\ ~Has(n, "uniqueLabels")
    /\ Has(n, "uniqueProperties") /\ n.uniqueProperties = {"p", "q"}

\* A second iterator node, for the other endpoint.
IterOther ==
    [id |-> "n2", nodeType |-> "iterator", iterator |-> <<"t">>,
     labels |-> <<"C">>, required |-> FALSE,
     properties |-> <<Prop("k", <<"ITER!">>, "number")>>,
     uniqueProperties |-> {"k"}]

\* An iterator node whose instances all carry the same property.
IterPlain ==
    [id |-> "n1", nodeType |-> "iterator", iterator |-> <<"t">>,
     labels |-> <<"A", "B">>, required |-> TRUE,
     properties |-> <<Prop("p", <<"a">>, "string")>>]

\* A node with a property whose path runs through "n": evaluating it on a
\* document where "n" is a number raises.
OtherRaises ==
    [id |-> "n2", nodeType |-> "standard", labels |-> <<"C">>,
     required |-> FALSE,
     properties |-> <<Prop("k", <<"n", "b">>, "string")>>]

\* A node with a property of every declared type, the type tags at odds with
\* the values' shapes where the document allows it; and the same node with a
\* property of a type that is not declared.
OtherTyped ==
    [id |-> "n2", nodeType |-> "standard", labels |-> <<"C">>,
     required |-> FALSE,
     properties |-> <<Prop("k", <<"t">>, "list"),
                      Prop("m", <<"a">>, "number"),
                      Prop("d", <<"b">>, "datetime"),
                      Prop("s", <<"n">>, "string")>>]

OtherUndeclared ==
    [OtherTyped EXCEPT !.properties = Append(@, Prop("f", <<"a">>, "boolean"))]

\* Relationships over every pairing of endpoints: the two nodes either way,
\* the same node twice, and an id ("n3") no node definition has.
RelDefsEnds ==
    {cfg @@ [type |-> "KNOWS", relationshipType |-> ty,
             directionality |-> ">", sourceNode |-> ends[1],
             destinationNode |-> ends[2], required |-> rq] :
        cfg \in {<<>>,
                 [properties |-> <<Prop("w", <<"a">>, "string")>>],
                 [properties |-> <<Prop("w", <<"a">>, "string"),
                                   Prop("z", <<"b">>, "datetime")>>,
                  uniqueProperties |-> {"w"}]},
        ty \in {"standard", "iterator"},
        ends \in {<<"n1", "n2">>, <<"n2", "n1">>, <<"n1", "n1">>,
                  <<"n1", "n3">>, <<"n3", "n1">>},
        rq \in BOOLEAN}

\* The iterator relationships between the two nodes, drawn backward.
RelDefsBackward ==
    {[r EXCEPT !.directionality = "<"] :
        r \in {r \in RelDefsEnds :
                /\ r.relationshipType = "iterator"
                /\ r.sourceNode # r.destinationNode
                /\ "n3" \notin {r.sourceNode, r.destinationNode}}}

\* Every node definition against a fixed relationship, every relationship
\* definition against fixed nodes, and every pairing of endpoints over an
\* iterator node.
MappingsGen ==
    {Mapping(<<n, o>>, <<RelRef>>) :
        n \in NodeDefsGen, o \in {OtherRef, OtherRaises}}
    \cup {Mapping(<<NodeRef, o>>, <<RelRef>>) :
            o \in {OtherTyped, OtherUndeclared}}
    \cup {Mapping(<<n, o>>, <<r>>) :
            n \in {IterRef, IterPlain}, o \in {OtherRef, IterOther},
            r \in RelDefsEnds}
    \cup {Mapping(<<IterRef, OtherRef>>, <<r>>) : r \in RelDefsBackward}
    \cup {Mapping(<<NodeRef, o>>, <<r>>) : o \in OtherNodes, r \in RelDefsGen}

\* The compiler alone: every mapping, one document indexed twice, fetched one
\* at a time; the sink fails only on what it cannot parse.
InitGen ==
    /\ mapping \in MappingsGen
    /\ \E d \in DocsGen : index = <<d, d>>
    /\ size = 1
    /\ scroll = TRUE
    /\ end_after_empty = TRUE
    /\ execute = TRUE
    /\ faults = 0
    /\ responses = WellBehaved
    /\ NoModules
    /\ Start

NextGen ==
    \/ Scroll
    \/ Process
    \/ Generate
    \/ Execute
    \/ StatementFails
    \/ EndBuild
    \/ CloseSink

SpecGen == InitGen /\ [][NextGen]_vars

\* A relationship that needs its property z.
RelReq == CHOOSE r \in RelDefsGen :
    /\ r.relationshipType = "standard" /\ r.directionality = ">"
    /\ r.sourceNode = "n1" /\ r.required /\ ~Has(r, "unique")
    /\ Has(r, "requiredProperties")

\* The relationship of the iterator node.
RelIter == CHOOSE r \in RelDefsGen :
    /\ r.relationshipType = "iterator" /\ r.directionality = ">"
    /\ r.sourceNode = "n1" /\ r.required /\ ~Has(r, "unique")
    /\ Has(r, "properties") /\ Len(r.properties) = 1
    /\ ~Has(r, "uniqueProperties")

\* The run: a few mappings, any index of up to MaxDocs documents, every mode,
\* interrupts and sink failures.
MappingsRun ==
    { Mapping(<<NodeRef, OtherRef>>, <<RelRef>>),
      Mapping(<<NodeRef, OtherRef>>, <<RelReq>>),
      Mapping(<<IterRef, OtherRef>>, <<RelIter>>),
      Mapping(<<NodeRef, OtherRaises>>, <<RelRef>>) }

DocsRun == {DocFull, Rec([a |-> Text("x"), t |-> Array(MaxArray)])}

Indexes(docs, n) == UNION {[1..k -> docs] : k \in 0..n}

Init ==
    /\ mapping \in MappingsRun
    /\ index \in Indexes(DocsRun, MaxDocs)
    /\ size \in 1..MaxDocs
    /\ scroll \in BOOLEAN
    /\ end_after_empty \in BOOLEAN
    /\ execute \in BOOLEAN
    /\ faults \in 0..MaxFaults
    /\ responses \in {WellBehaved, ScrollIds \cup {NoSid, Raises}}
    /\ NoModules
    /\ Start

Spec == Init /\ [][Next]_vars

\* The run with processor modules loaded: two pre-processors, post-node
\* processors and post-relationship processors in either order, over a
\* mapping whose relationship is required or not.
PreModulesGen == {<<>>, <<"set_a", "copy_a_to_b">>, <<"copy_a_to_b", "set_a">>}

PostNodeModulesGen ==
    {<<>>, <<"add_label">>, <<"drop_n2">>,
     <<"drop_n2", "n1_as_n2">>, <<"n1_as_n2", "drop_n2">>}

PostRelationshipModulesGen ==
    {<<>>, <<"twice", "first_only">>, <<"first_only", "twice">>}

MappingsHooks ==
    {Mapping(<<NodeRef, OtherRef>>, <<[RelRef EXCEPT !.required = rq]>>) :
        rq \in BOOLEAN}

InitHooks ==
    /\ mapping \in MappingsHooks
    /\ pre_modules \in PreModulesGen
    /\ post_node_modules \in PostNodeModulesGen
    /\ post_relationship_modules \in PostRelationshipModulesGen
    /\ \E d \in DocsGen : index = <<d>>
    /\ size = 1
    /\ scroll = TRUE
    /\ end_after_empty = TRUE
    /\ execute = TRUE
    /\ faults \in 0..MaxFaults
    /\ responses = WellBehaved
    /\ Start

SpecHooks == InitHooks /\ [][NextGen]_vars

(***************************************************************************)
(* Properties                                                              *)
(***************************************************************************)
\* The document holds a value at the dotted path.
RECURSIVE PathPresent(_, _)
PathPresent(keys, item) ==
    /\ item.kind = "rec"
    /\ keys[1] \in DOMAIN item.v
    /\ (Len(keys) = 1 \/ PathPresent(Tail(keys), item.v[keys[1]]))

\* xs[1][field] \o xs[2][field] \o ...
RECURSIVE ConcatField(_, _)
ConcatField(xs, field) ==
    IF xs = <<>> THEN <<>>
    ELSE xs[1][field] \o ConcatField(Tail(xs), field)

\* A required standard node definition of the mapping lists in
\* requiredProperties a property whose path the document lacks.
LacksRequiredPath(m, doc) ==
    \E i \in 1..Len(m.nodes) :
        /\ m.nodes[i].required
        /\ m.nodes[i].nodeType = "standard"
        /\ "requiredProperties" \in DOMAIN m.nodes[i]
        /\ "properties" \in DOMAIN m.nodes[i]
        /\ \E j \in 1..Len(m.nodes[i].properties) :
                /\ m.nodes[i].properties[j].name \in m.nodes[i].requiredProperties
                /\ ~PathPresent(m.nodes[i].properties[j].key, doc)

\* C1: a document that lacks a path listed in requiredProperties of a required
\* standard node adds no node and no relationship to the batch output, and the
\* batch output is made of the documents' contributions only.
C1_FailClosed ==
    /\ \A i \in 1..Len(contrib) :
            LacksRequiredPath(mapping, data[i])
            => contrib[i].nodes = <<>> /\ contrib[i].relationships = <<>>
    /\ nodes = ConcatField(contrib, "nodes")
    /\ relationships = ConcatField(contrib, "relationships")

\* C1 happens: a document with the other node's path but without the required
\* one has been compiled, and the code found its nodes invalid.
C1_Witness ==
    /\ Len(contrib) = 1
    /\ LacksRequiredPath(mapping, data[1])
    /\ PathPresent(<<"a">>, data[1])
    /\ ~contrib[1].nodes_valid
    /\ ~contrib[1].raised
    /\ di = 1

\* What a document compiles to on its own, when the code finds both its nodes
\* and its relationships valid: [nodes, relationships].
Alone(m, doc) ==
    Let(_gen_nodes(m, doc), LAMBDA n :
        IF ~n.valid \/ n.raised
        THEN [nodes |-> <<>>, relationships |-> <<>>]
        ELSE Let(_gen_relationships(m, doc, n.nodes), LAMBDA r :
                IF ~r.valid \/ r.raised
                THEN [nodes |-> <<>>, relationships |-> <<>>]
                ELSE [nodes |-> n.nodes, relationships |-> r.relationships]))

\* The documents 1..n of the batch, each compiled on its own.
BatchAlone(n) == [i \in 1..n |-> Alone(mapping, data[i])]

\* The code found document i's nodes valid and its relationships invalid.
Dropped(i) == contrib[i].nodes_valid /\ ~contrib[i].rels_valid

\* C2: a document whose relationship compilation is invalid adds none of its
\* nodes and none of its relationships to the batch output; the output is what
\* the other documents compile to on their own, and the statements are those
\* generated from that output.
C2_NoPartialOutput ==
    /\ \A i \in 1..Len(contrib) :
            Dropped(i)
            => contrib[i].nodes = <<>> /\ contrib[i].relationships = <<>>
    /\ nodes = ConcatField(BatchAlone(di), "nodes")
    /\ relationships = ConcatField(BatchAlone(di), "relationships")
    /\ pc \in {"execute", "built"}
       => /\ node_statements =
                _gen_node_statements(ConcatField(BatchAlone(di), "nodes")).statements
          /\ relationship_statements =
                _gen_relationship_statements(
                    ConcatField(BatchAlone(di), "relationships")).statements

\* C2 happens: the first document of a batch of two was dropped for its
\* relationships, and the statements of the second have all been executed.
C2_Witness ==
    /\ Len(data) = 2
    /\ Len(contrib) = 2
    /\ Dropped(1)
    /\ contrib[2].nodes # <<>>
    /\ contrib[2].relationships # <<>>
    /\ pc = "execute"
    /\ si > 0
    /\ si = Len(node_statements) + Len(relationship_statements)

\* The events of kind e that batch b left, in order.
EventsOf(e, b) == SelectSeq(events, LAMBDA x : x.e = e /\ x.batch = b)

\* The statements the sink has been given in batch b, in order.
Submitted(b) ==
    Let(SelectSeq(events, LAMBDA x : x.e \in {"exec", "fail"} /\ x.batch = b),
        LAMBDA xs : [i \in 1..Len(xs) |-> xs[i].stmt])

IsPrefix(xs, ys) == Len(xs) <= Len(ys) /\ xs = SubSeq(ys, 1, Len(xs))

\* A relationship statement opens with MATCH, a node statement does not.
IsRelationshipStatement(stmt) == stmt[1] = KW("MATCH")

\* The statements each document of the batch generates on its own, one list
\* after the other in batch order.
RECURSIVE StatementsByDocument(_, _)
StatementsByDocument(alone, kind) ==
    IF alone = <<>> THEN <<>>
    ELSE (IF kind = "node"
          THEN _gen_node_statements(alone[1].nodes).statements
          ELSE _gen_relationship_statements(alone[1].relationships).statements)
         \o StatementsByDocument(Tail(alone), kind)

\* The array elements the node statements bind to q, in statement order.
BoundElements(stmts) ==
    Let(SelectSeq(stmts, LAMBDA st :
            \E i \in 1..Len(st) :
                st[i].t = "entry" /\ st[i].a = "q" /\ st[i].lit.value.kind = "num"),
        LAMBDA xs :
            [k \in 1..Len(xs) |->
                xs[k][CHOOSE i \in 1..Len(xs[k]) :
                        xs[k][i].t = "entry" /\ xs[k][i].a = "q"].lit.value])

\* The arrays of the documents of the batch, one after the other.
RECURSIVE ArraysOf(_)
ArraysOf(docs) ==
    IF docs = <<>> THEN <<>>
    ELSE (IF "t" \in DOMAIN docs[1].v THEN docs[1].v["t"].v ELSE <<>>)
         \o ArraysOf(Tail(docs))

\* The positions of the definitions the compiled nodes came from follow the
\* mapping's order.
InMappingOrder(m, ns) ==
    \A i, j \in 1..Len(ns) :
        i < j => \E a, b \in 1..Len(m.nodes) :
                    a < b /\ m.nodes[a].id = ns[i].id /\ m.nodes[b].id = ns[j].id

\* C3: in every batch the sink is given the node statements before any
\* relationship statement, and each list in generation order: the documents in
\* batch order, the definitions of one document in the mapping's order, the
\* instances of an iterator node in array order.
C3_StatementOrder ==
    /\ \A i, j \in 1..Len(Submitted(batch)) :
            i < j => ~(/\ IsRelationshipStatement(Submitted(batch)[i])
                       /\ ~IsRelationshipStatement(Submitted(batch)[j]))
    /\ IsPrefix(Submitted(batch), node_statements \o relationship_statements)
    /\ pc \in {"execute", "built"}
       => /\ node_statements = StatementsByDocument(BatchAlone(di), "node")
          /\ relationship_statements = StatementsByDocument(BatchAlone(di), "rel")
          /\ \A i \in 1..di : InMappingOrder(mapping, Alone(mapping, data[i]).nodes)
          /\ mapping.nodes[1].nodeType = "iterator"
             => BoundElements(node_statements) = ArraysOf(data)

\* C3 happens: two documents gave node and relationship statements, among
\* them those of an iterator node, and the sink has been given them all.
C3_Witness ==
    /\ Len(data) = 2
    /\ pc = "execute"
    /\ mapping.nodes[1].nodeType = "iterator"
    /\ Len(node_statements) >= 4
    /\ Len(relationship_statements) >= 2
    /\ Len(Submitted(batch)) = Len(node_statements) + Len(relationship_statements)
    /\ outcome = "running"

\* The position in events of the generate event of batch b, 0 when none.
GeneratedAt(b) ==
    IF \E j \in 1..Len(events) : events[j].e = "generate" /\ events[j].batch = b
    THEN CHOOSE j \in 1..Len(events) :
            events[j].e = "generate" /\ events[j].batch = b
    ELSE 0

\* The statements of batch b that the sink has executed.
Executed(b) == Len(EventsOf("exec", b))

\* C4: when the sink fails on a statement the run goes on with the next
\* statement of the batch, or with the end of build when it was the last: it
\* does not leave the batch.
C4_PerStatementRecovery ==
    \A j \in 1..Len(events) :
        events[j].e = "fail" /\ j < Len(events)
        => events[j + 1].e \in {"exec", "fail", "built", "interrupt"}

\* C5: after an interrupt no batch is requested and the sink is closed, and an
\* interrupt that arrives while the statements of a batch are being executed
\* lets the remaining statements of the batch execute before the sink is
\* closed.
C5_Cancellation ==
    \A j \in 1..Len(events) :
        events[j].e = "interrupt"
        => /\ \A k \in (j + 1)..Len(events) : events[k].e # "scroll"
           /\ pc = "done" => closed = 1
           /\ events[j].list = "execute" /\ pc = "done"
              => Executed(events[j].batch)
                    = events[GeneratedAt(events[j].batch)].k

Rank(e) ==
    CASE e = "scroll" -> 0
      [] e = "compile" -> 1
      [] e = "generate" -> 2
      [] e \in {"exec", "fail"} -> 3
      [] OTHER -> 4

\* C6: in build every document of the batch is compiled before the statements
\* are generated and the statements are generated before the first is
\* executed; with execution on, a batch is requested only when every statement
\* of the batch before it has been executed, so two batches never interleave.
C6_PhaseOrder ==
    /\ \A j, k \in 1..Len(events) :
            j < k => /\ events[j].batch <= events[k].batch
                     /\ events[j].batch = events[k].batch
                        /\ events[k].e \in {"scroll", "compile", "generate",
                                            "exec", "fail"}
                        => Rank(events[j].e) <= Rank(events[k].e)
    /\ \A j \in 1..Len(events) :
            events[j].e = "generate"
            => Len(EventsOf("compile", events[j].batch))
                    = EventsOf("scroll", events[j].batch)[1].k
    /\ \A j \in 1..Len(events) :
            events[j].e = "scroll" /\ events[j].batch > 1 /\ execute
            /\ GeneratedAt(events[j].batch - 1) > 0
            => Executed(events[j].batch - 1)
                    = events[GeneratedAt(events[j].batch - 1)].k

\* C6 happens: the second batch is being executed after the two documents'
\* worth of statements of the first were.
C6_Witness ==
    /\ batch = 2
    /\ execute
    /\ pc = "execute"
    /\ si >= 1
    /\ Executed(1) >= 3
    /\ Executed(1) = events[GeneratedAt(1)].k

\* The compiled nodes one statement each is generated for: a standard node, or
\* each instance of an iterator node.
RECURSIVE NodeUnits(_)
NodeUnits(ns) ==
    IF ns = <<>> THEN <<>>
    ELSE (IF ns[1].nodeType = "iterator" THEN ns[1].instances ELSE <<ns[1]>>)
         \o NodeUnits(Tail(ns))

\* The compiled relationships one statement each is generated for.
RECURSIVE RelationshipUnits(_)
RelationshipUnits(rs) ==
    IF rs = <<>> THEN <<>>
    ELSE (IF rs[1].relationshipType = "iterator"
          THEN rs[1].instances ELSE <<rs[1]>>)
         \o RelationshipUnits(Tail(rs))

\* build has generated the statements of the batch.
Generated ==
    pc \in {"execute", "built"} \/ node_statements # <<>>

\* The MERGE or CREATE keywords of a statement, in order.
WriteKeywords(stmt) ==
    SelectSeq(stmt, LAMBDA tok : tok \in {KW("MERGE"), KW("CREATE")})

\* C7: the statement of a compiled node starts with MERGE when the node
\* carries uniqueProperties or uniqueLabels and with CREATE otherwise; the edge
\* clause of a relationship statement uses MERGE when the relationship has
\* unique = true or carries uniqueProperties, and CREATE otherwise.
C7_MergeOrCreate ==
    Generated
    => /\ Len(node_statements) = Len(NodeUnits(nodes))
       /\ \A k \in 1..Len(node_statements) :
            node_statements[k][1] =
                KW(IF \/ "uniqueProperties" \in DOMAIN NodeUnits(nodes)[k]
                      \/ "uniqueLabels" \in DOMAIN NodeUnits(nodes)[k]
                   THEN "MERGE" ELSE "CREATE")
       /\ Len(relationship_statements) = Len(RelationshipUnits(relationships))
       /\ \A k \in 1..Len(relationship_statements) :
            WriteKeywords(relationship_statements[k]) =
                << KW(IF \/ /\ "unique" \in DOMAIN RelationshipUnits(relationships)[k]
                            /\ RelationshipUnits(relationships)[k].unique
                         \/ "uniqueProperties"
                                \in DOMAIN RelationshipUnits(relationships)[k]
                      THEN "MERGE" ELSE "CREATE") >>

\* C7 happens: a merged node, and an edge created for a relationship whose
\* unique flag is false.
C7_Witness ==
    /\ pc = "execute"
    /\ \E k \in 1..Len(node_statements) : node_statements[k][1] = KW("MERGE")
    /\ \E k \in 1..Len(node_statements) : node_statements[k][1] = KW("CREATE")
    /\ \E k \in 1..Len(relationship_statements) :
            /\ "unique" \in DOMAIN RelationshipUnits(relationships)[k]
            /\ ~RelationshipUnits(relationships)[k].unique
            /\ WriteKeywords(relationship_statements[k]) = <<KW("CREATE")>>

\* The names of an ordered dict the element may lack.
NamesOf(unit, field) ==
    IF field \in DOMAIN unit THEN Names(unit[field]) ELSE {}

\* The labels of a list the element may lack.
LabelSet(unit, field) ==
    IF field \in DOMAIN unit
    THEN {unit[field][i] : i \in 1..Len(unit[field])} ELSE {}

\* C8: the MERGE pattern of a merged standard node holds the uniqueLabels (all
\* labels when there are none) and the properties in uniqueProperties, and
\* nothing else; the other properties and labels are in the SET clause after
\* the pattern.
C8_MergePattern ==
    Generated /\ Len(node_statements) = Len(NodeUnits(nodes))
    => \A k \in 1..Len(node_statements) :
        /\ "nodeType" \in DOMAIN NodeUnits(nodes)[k]
        /\ node_statements[k][1] = KW("MERGE")
        => /\ LabelsIn(node_statements[k], 1, CloseAfter(node_statements[k], 1))
                = (IF "uniqueLabels" \in DOMAIN NodeUnits(nodes)[k]
                   THEN LabelSet(NodeUnits(nodes)[k], "uniqueLabels")
                   ELSE LabelSet(NodeUnits(nodes)[k], "labels"))
           /\ DOMAIN EntriesIn(node_statements[k], 1,
                               CloseAfter(node_statements[k], 1))
                = NamesOf(NodeUnits(nodes)[k], "uniqueProperties")
           /\ DOMAIN AssignsIn(node_statements[k], "n",
                               CloseAfter(node_statements[k], 1),
                               Len(node_statements[k]))
                = NamesOf(NodeUnits(nodes)[k], "properties")
                  \ NamesOf(NodeUnits(nodes)[k], "uniqueProperties")
           /\ LabelsIn(node_statements[k], CloseAfter(node_statements[k], 1),
                       Len(node_statements[k]))
                = LabelSet(NodeUnits(nodes)[k], "labels")
                  \ (IF "uniqueLabels" \in DOMAIN NodeUnits(nodes)[k]
                     THEN LabelSet(NodeUnits(nodes)[k], "uniqueLabels")
                     ELSE LabelSet(NodeUnits(nodes)[k], "labels"))

\* The compiled value of the property called name.
ValueOf(props, name) ==
    props[CHOOSE i \in 1..Len(props) : props[i].name = name].value

\* C9: for a compiled relationship without a unique flag that carries
\* uniqueProperties, the edge is merged on a pattern holding exactly the
\* properties in uniqueProperties, and every other compiled property is
\* assigned in the SET clause on r, each with its compiled value.
C9_UniqueProperties ==
    Generated
    /\ Len(relationship_statements) = Len(RelationshipUnits(relationships))
    => \A k \in 1..Len(relationship_statements) :
        /\ "unique" \notin DOMAIN RelationshipUnits(relationships)[k]
        /\ "uniqueProperties" \in DOMAIN RelationshipUnits(relationships)[k]
        => Let([u |-> RelationshipUnits(relationships)[k],
                st |-> relationship_statements[k],
                w |-> WritePos(relationship_statements[k])],
               LAMBDA c :
                /\ c.st[c.w] = KW("MERGE")
                /\ DOMAIN EntriesIn(c.st, c.w, Len(c.st))
                        = Names(c.u.uniqueProperties)
                /\ \A n \in Names(c.u.uniqueProperties) :
                        EntriesIn(c.st, c.w, Len(c.st))[n].value
                            = ValueOf(c.u.uniqueProperties, n)
                /\ {c.st[i].b : i \in Positions(c.st, "assign", c.w, Len(c.st))}
                        = Names(c.u.properties) \ Names(c.u.uniqueProperties)
                /\ \A i \in Positions(c.st, "assign", c.w, Len(c.st)) :
                        /\ c.st[i].a = "r"
                        /\ c.st[i].lit.value = ValueOf(c.u.properties, c.st[i].b)
                        /\ i > MinOf({j \in c.w..Len(c.st) : c.st[j] = KW("SET")}))

\* C9 happens: a relationship without a unique flag compiled with the unique
\* property w and the other property z, and its statement has been generated.
C9_Witness ==
    /\ pc = "execute"
    /\ Len(relationship_statements) = Len(RelationshipUnits(relationships))
    /\ \E k \in 1..Len(relationship_statements) :
            /\ "unique" \notin DOMAIN RelationshipUnits(relationships)[k]
            /\ "uniqueProperties" \in DOMAIN RelationshipUnits(relationships)[k]
            /\ Names(RelationshipUnits(relationships)[k].uniqueProperties) = {"w"}
            /\ Names(RelationshipUnits(relationships)[k].properties) = {"w", "z"}
            /\ RelationshipUnits(relationships)[k].directionality = "<"

\* Every node and relationship definition of the mapping declares
\* uniqueProperties.
AllDeclareUnique(m) ==
    /\ \A i \in 1..Len(m.nodes) : "uniqueProperties" \in DOMAIN m.nodes[i]
    /\ \A i \in 1..Len(m.relationships) :
            "uniqueProperties" \in DOMAIN m.relationships[i]

\* C10: when every definition of the mapping declares uniqueProperties,
\* executing the statements of a document a second time leaves the graph as the
\* first execution left it.
C10_Idempotent ==
    /\ AllDeclareUnique(mapping)
    /\ Len(graphs) >= 2
    /\ Submitted(1) # <<>>
    => graphs[2] = graphs[1]

\* The compiled nodes with the given id.
NodesWithId(ns, id) == SelectSeq(ns, LAMBDA n : n.id = id)

\* The endpoint id resolves to a compiled iterator node.
IsIteratorEndpoint(ns, id) ==
    \E i \in 1..Len(ns) : ns[i].id = id /\ ns[i].nodeType = "iterator"

\* The iterator relationship definitions of the mapping, each compiled against
\* the nodes document i of the batch compiles to:
\* [def, nodes, result] with result = [relationship, valid, raised].
IteratorRelationshipsOf(i) ==
    Let(_gen_nodes(mapping, data[i]).nodes, LAMBDA ns :
        Let(SelectSeq(mapping.relationships,
                      LAMBDA r : r.relationshipType = "iterator"),
            LAMBDA defs :
                [k \in 1..Len(defs) |->
                    [def |-> defs[k],
                     nodes |-> ns,
                     result |-> _gen_iterative_relationship(
                                    data[i], defs[k], ns,
                                    [type |-> defs[k].type,
                                     relationshipType |-> "iterator"])]]))

\* C11: an iterator relationship is valid only when both endpoint ids resolve
\* among the document's compiled nodes and exactly one of the two endpoints is
\* an iterator node; otherwise it is invalid and carries no instances.
C11_EndpointCardinality ==
    \A i \in 1..Len(contrib) :
        ~contrib[i].raised
        => /\ \A k \in 1..Len(IteratorRelationshipsOf(i)) :
                Let(IteratorRelationshipsOf(i)[k], LAMBDA c :
                    /\ c.result.valid
                       => /\ NodesWithId(c.nodes, c.def.sourceNode) # <<>>
                          /\ NodesWithId(c.nodes, c.def.destinationNode) # <<>>
                          /\ c.def.sourceNode # c.def.destinationNode
                          /\ IsIteratorEndpoint(c.nodes, c.def.sourceNode)
                             # IsIteratorEndpoint(c.nodes, c.def.destinationNode)
                    /\ ~c.result.valid
                       => "instances" \notin DOMAIN c.result.relationship)
           /\ \A k \in 1..Len(contrib[i].relationships) :
                contrib[i].relationships[k].relationshipType = "iterator"
                => (contrib[i].relationships[k].sourceNode.nodeType = "iterator")
                   # (contrib[i].relationships[k].destinationNode.nodeType
                        = "iterator")

\* C11 happens: a document compiled an iterator node with instances, and the
\* relationship that names that node at both ends was found invalid.
C11_Witness ==
    /\ Len(contrib) = 1
    /\ ~contrib[1].raised
    /\ contrib[1].nodes_valid
    /\ \E k \in 1..Len(IteratorRelationshipsOf(1)) :
            Let(IteratorRelationshipsOf(1)[k], LAMBDA c :
                /\ c.def.sourceNode = c.def.destinationNode
                /\ IsIteratorEndpoint(c.nodes, c.def.sourceNode)
                /\ ~c.result.valid)

\* The iterator endpoint of a compiled iterator relationship, and the
\* variable its statements match it under.
IteratorEndpoint(rel) ==
    IF rel.sourceNode.nodeType = "iterator"
    THEN rel.sourceNode ELSE rel.destinationNode

EndpointVar(rel) ==
    IF rel.sourceNode.nodeType = "iterator" THEN "s" ELSE "d"

\* What the MATCH clause of a statement asks of the node bound to var: the
\* labels in its pattern and the conditions on it.
PatternOf(stmt, var) ==
    Let(MinOf({i \in 1..Len(stmt) : stmt[i] = Open(var)}), LAMBDA open :
        [labels |-> LabelsIn(stmt, open, CloseAfter(stmt, open)),
         props |-> AssignsIn(stmt, var, 1, WritePos(stmt))])

\* One node instance as the node it stands for: all its labels, and its
\* properties as literals.
InstanceElement(inst) ==
    [labels |-> {inst.labels[i] : i \in 1..Len(inst.labels)}
                \cup (IF Has(inst, "uniqueLabels")
                      THEN {inst.uniqueLabels[i] : i \in 1..Len(inst.uniqueLabels)}
                      ELSE {}),
     props |-> IF Has(inst, "properties")
               THEN [k \in {inst.properties[i].name : i \in 1..Len(inst.properties)} |->
                        _get_property_value(
                            inst.properties[CHOOSE i \in 1..Len(inst.properties) :
                                                inst.properties[i].name = k])]
               ELSE <<>>]

StatementMatchesInstance(stmt, var, inst) ==
    Let(PatternOf(stmt, var), LAMBDA pat :
        Matches(InstanceElement(inst), pat.labels, pat.props))

\* The compiled iterator relationships of document i of the batch.
CompiledIteratorRelationships(i) ==
    SelectSeq(contrib[i].relationships,
              LAMBDA r : r.relationshipType = "iterator")

\* A compiled iterator relationship has one instance per node instance of its
\* iterator endpoint.
SameInstanceCount(rel) ==
    Len(rel.instances) = Len(IteratorEndpoint(rel).instances)

\* C12: a compiled iterator relationship has as many instances as its iterator
\* endpoint, and the statement of relationship instance a matches node
\* instance a of that endpoint and no other.
C12_PositionalCorrelation ==
    \A i \in 1..Len(contrib) :
        ~contrib[i].raised
        => \A k \in 1..Len(CompiledIteratorRelationships(i)) :
            Let(CompiledIteratorRelationships(i)[k], LAMBDA rel :
            Let(_gen_iterative_relationship_statements(rel).statements,
                LAMBDA stmts :
                    /\ SameInstanceCount(rel)
                    /\ Len(stmts) = Len(rel.instances)
                    /\ \A a \in 1..Len(stmts) :
                        \A b \in 1..Len(IteratorEndpoint(rel).instances) :
                            StatementMatchesInstance(
                                stmts[a], EndpointVar(rel),
                                IteratorEndpoint(rel).instances[b])
                            <=> a = b))

\* The part of C12 on the number of instances alone.
C12_InstanceCount ==
    \A i \in 1..Len(contrib) :
        ~contrib[i].raised
        => \A k \in 1..Len(CompiledIteratorRelationships(i)) :
                SameInstanceCount(CompiledIteratorRelationships(i)[k])

\* A compiled iterator relationship over two or more node instances.
C12_Reached ==
    \E i \in 1..Len(contrib) :
        /\ ~contrib[i].raised
        /\ \E k \in 1..Len(CompiledIteratorRelationships(i)) :
                Len(CompiledIteratorRelationships(i)[k].instances) >= 2

\* The iterator node definitions of the mapping that have a property whose
\* source path is ITER!.
IterBindingDefs ==
    SelectSeq(mapping.nodes,
              LAMBDA n : /\ n.nodeType = "iterator"
                         /\ Has(n, "properties")
                         /\ \E j \in 1..Len(n.properties) :
                                n.properties[j].key = <<"ITER!">>)

\* The iterator path of the definition resolves to an array in the document.
ResolvesToArray(node, doc) ==
    /\ PathPresent(node.iterator, doc)
    /\ _recursive_get_value(node.iterator, doc).value.kind = "list"

ArrayAt(node, doc) == _recursive_get_value(node.iterator, doc).value.v

\* The instances of a compiled node; none when it has no instances key.
InstancesOf(node) == IF Has(node, "instances") THEN node.instances ELSE <<>>

\* The value every ITER! property of the instance is bound to is x.
BoundTo(node, inst, x) ==
    /\ Has(inst, "properties")
    /\ \A j \in 1..Len(node.properties) :
            node.properties[j].key = <<"ITER!">>
            => \E e \in 1..Len(inst.properties) :
                    /\ inst.properties[e].name = node.properties[j].name
                    /\ inst.properties[e].value = x

\* The document lacks the path of a property the definition requires.
MissingRequired(node, doc) ==
    \E j \in 1..Len(node.properties) :
        /\ IsRequired(node, node.properties[j])
        /\ node.properties[j].key # <<"ITER!">>
        /\ ~PathPresent(node.properties[j].key, doc)

IteratorDefs ==
    SelectSeq(mapping.nodes, LAMBDA n : n.nodeType = "iterator")

\* The instance has every property the definition requires.
HasRequired(node, inst) ==
    \A j \in 1..Len(node.properties) :
        IsRequired(node, node.properties[j])
        => /\ Has(inst, "properties")
           /\ node.properties[j].name \in Names(inst.properties)

\* The document's compiled nodes hold the node of definition def, with at
\* least one instance, exactly when the definition compiles to a valid node.
InNodeList(i, def, r) ==
    (\E k \in 1..Len(contrib[i].nodes) :
        /\ contrib[i].nodes[k].id = def.id
        /\ contrib[i].nodes[k].nodeType = "iterator")
    => /\ r.valid
       /\ \E k \in 1..Len(contrib[i].nodes) : contrib[i].nodes[k] = r.node

\* C14: in an iterator node a missing required property drops the instance
\* under evaluation and nothing else: no instance without a required property
\* is produced, the instances of the other elements are produced, and nothing
\* is raised; the node is valid exactly when it has an instance; an absent
\* iterator path gives no instance and an invalid node.
C14_InstanceFailure ==
    \A i \in 1..Len(contrib) :
        \A k \in 1..Len(IteratorDefs) :
            Let(IteratorDefs[k], LAMBDA def :
            Let(GenNode(data[i], def), LAMBDA r :
                ~r.raised
                => /\ r.valid <=> Len(InstancesOf(r.node)) > 0
                   /\ ~PathPresent(def.iterator, data[i])
                        => ~r.valid /\ InstancesOf(r.node) = <<>>
                   /\ Has(def, "properties")
                        => \A e \in 1..Len(InstancesOf(r.node)) :
                                HasRequired(def, InstancesOf(r.node)[e])
                   /\ (ResolvesToArray(def, data[i]) /\ Has(def, "properties")
                       /\ ~MissingRequired(def, data[i]))
                        => Len(InstancesOf(r.node)) = Len(ArrayAt(def, data[i]))
                   /\ ~contrib[i].raised => InNodeList(i, def, r)))

\* C14 happens: an iterator node that is not required lost its instances to a
\* missing required property over a non-empty array, and the document was
\* found valid all the same, its other node compiled.
C14_Witness ==
    /\ Len(contrib) = 1
    /\ ~contrib[1].raised
    /\ contrib[1].nodes_valid
    /\ Len(_gen_nodes(mapping, data[1]).nodes) = 1
    /\ \E k \in 1..Len(IteratorDefs) :
        /\ ~IteratorDefs[k].required
        /\ Has(IteratorDefs[k], "properties")
        /\ ResolvesToArray(IteratorDefs[k], data[1])
        /\ Len(ArrayAt(IteratorDefs[k], data[1])) = MaxArray
        /\ MissingRequired(IteratorDefs[k], data[1])
        /\ _gen_nodes(mapping, data[1]).nodes[1].id # IteratorDefs[k].id

\* Every node definition of the mapping evaluated on document i by itself.
NodeResults(i) ==
    [k \in 1..Len(mapping.nodes) |-> GenNode(data[i], mapping.nodes[k])]

\* Definition k is required and not valid on the document.
RequiredInvalid(res, k) ==
    ~res[k].raised /\ ~res[k].valid /\ mapping.nodes[k].required

\* The first definition that is required and invalid, or raises; one past the
\* last definition when there is none.
FirstStop(res) ==
    MinOf({k \in 1..Len(res) : res[k].raised \/ RequiredInvalid(res, k)}
          \cup {Len(res) + 1})

\* The valid nodes among the first n definitions, in mapping order.
RECURSIVE ValidNodes(_, _)
ValidNodes(res, n) ==
    IF n = 0 THEN <<>>
    ELSE IF res[n].valid /\ ~res[n].raised
         THEN Append(ValidNodes(res, n - 1), res[n].node)
         ELSE ValidNodes(res, n - 1)

\* C15: the first invalid node with required=true marks the document invalid
\* and no later definition is evaluated (its node is not added, and what its
\* evaluation would raise is not raised); an invalid node with required=false
\* is left out, the later definitions are evaluated and the document stays
\* valid.
C15_RequiredNodeFailure ==
    \A i \in 1..Len(contrib) :
        Let(NodeResults(i), LAMBDA res :
        Let(FirstStop(res), LAMBDA stop :
        Let(_gen_nodes(mapping, data[i]), LAMBDA got :
            /\ got.nodes = ValidNodes(res, stop - 1)
            /\ got.valid = ~(stop <= Len(res) /\ RequiredInvalid(res, stop))
            /\ got.raised = (stop <= Len(res) /\ res[stop].raised)
            /\ contrib[i].nodes_valid = got.valid
            /\ ~got.valid => ~contrib[i].raised /\ contrib[i].nodes = <<>>)))

\* C15 happens: the first definition was required and invalid, the second
\* would have raised on this document, and the document was found invalid with
\* nothing raised.
C15_Witness ==
    /\ Len(contrib) = 1
    /\ Len(mapping.nodes) = 2
    /\ RequiredInvalid(NodeResults(1), 1)
    /\ NodeResults(1)[2].raised
    /\ ~contrib[1].nodes_valid
    /\ ~contrib[1].raised

\* The other half of C15 happens: the first definition was invalid and not
\* required, and the document was compiled with the second definition's node.
C15_Skipped ==
    /\ Len(contrib) = 1
    /\ Len(mapping.nodes) = 2
    /\ ~NodeResults(1)[1].valid /\ ~NodeResults(1)[1].raised
    /\ ~mapping.nodes[1].required
    /\ contrib[1].nodes_valid
    /\ _gen_nodes(mapping, data[1]).nodes = <<NodeResults(1)[2].node>>

\* The mapping has a relationship whose sourceNode or destinationNode is the
\* id of no node definition.
Dangling(m) ==
    \E k \in 1..Len(m.relationships) :
        \E id \in {m.relationships[k].sourceNode,
                   m.relationships[k].destinationNode} :
            \A j \in 1..Len(m.nodes) : m.nodes[j].id # id

\* C16: a mapping with a dangling node reference is rejected when it is
\* loaded: no document is ever compiled under it.
C16_RejectedAtLoad ==
    Dangling(mapping) => contrib = <<>> /\ di = 0

\* What the code does instead: the dangling reference is met document by
\* document, where the relationship is found invalid.
C16_PerDocument ==
    \A i \in 1..Len(contrib) :
        (Dangling(mapping) /\ contrib[i].nodes_valid /\ ~contrib[i].raised)
        => \A k \in 1..Len(mapping.relationships) :
                ~GenRelationship(data[i], mapping.relationships[k],
                                 _gen_nodes(mapping, data[i]).nodes).valid

\* The source paths of the mapping: those of the properties of its nodes and
\* relationships, and the iterator paths.
PropertyPaths(defs) ==
    UNION {{defs[k].properties[j].key : j \in 1..Len(defs[k].properties)} :
            k \in {x \in 1..Len(defs) : Has(defs[x], "properties")}}

PathsOf(m) ==
    PropertyPaths(m.nodes) \cup PropertyPaths(m.relationships)
    \cup {m.nodes[k].iterator :
            k \in {x \in 1..Len(m.nodes) : Has(m.nodes[x], "iterator")}}

\* The value at the end of a path every segment of which names a key of a
\* record.
RECURSIVE TerminalValue(_, _)
TerminalValue(keys, item) ==
    IF Len(keys) = 1 THEN item.v[keys[1]]
    ELSE TerminalValue(Tail(keys), item.v[keys[1]])

\* C17: on every path of the mapping and every document compiled, the key
\* check raises nothing, is true exactly when every segment names a key of a
\* record, and when it is true the value read is the terminal value.
C17_ResolverTotal ==
    \A i \in 1..Len(contrib) :
        \A keys \in PathsOf(mapping) :
            /\ _recursive_key_check(keys, data[i]) # "TypeError"
            /\ _recursive_key_check(keys, data[i]) = "True"
                <=> PathPresent(keys, data[i])
            /\ _recursive_key_check(keys, data[i]) = "True"
                => _recursive_get_value(keys, data[i])
                    = [raised |-> FALSE, value |-> TerminalValue(keys, data[i])]

\* The resolver on the paths that stay within records: there it is as C17
\* says.
C17_WithinRecords ==
    \A i \in 1..Len(contrib) :
        \A keys \in PathsOf(mapping) :
            (Len(keys) = 1 \/ ~PathPresent(<<keys[1]>>, data[i])
             \/ data[i].v[keys[1]].kind = "rec")
            => /\ _recursive_key_check(keys, data[i]) # "TypeError"
               /\ _recursive_key_check(keys, data[i]) = "True"
                    <=> PathPresent(keys, data[i])
               /\ _recursive_key_check(keys, data[i]) = "True"
                    => _recursive_get_value(keys, data[i])
                        = [raised |-> FALSE,
                           value |-> TerminalValue(keys, data[i])]

\* The type tags a mapping may declare, and the form of the literal of each.
Declared == {"number", "string", "datetime", "list"}

FormOf(type) ==
    CASE type = "number" -> "raw"
      [] type = "string" -> "quoted"
      [] type = "datetime" -> "datetime"
      [] type = "list" -> "raw"

\* The compiled properties of the batch: those of its nodes, node instances,
\* relationships and relationship instances.
PropsOfUnits(units) ==
    UNION {{units[k].properties[j] : j \in 1..Len(units[k].properties)} :
            k \in {x \in 1..Len(units) : Has(units[x], "properties")}}

CompiledProps ==
    PropsOfUnits(NodeUnits(nodes)) \cup PropsOfUnits(RelationshipUnits(relationships))

\* The literals of the batch's statements, each with the property name it is
\* written under.
LiteralsOf(stmts) ==
    UNION {{[name |-> IF stmts[k][j].t = "entry"
                      THEN stmts[k][j].a ELSE stmts[k][j].b,
             lit |-> stmts[k][j].lit] :
                j \in {x \in 1..Len(stmts[k]) :
                        stmts[k][x].t \in {"entry", "assign"}}} :
            k \in 1..Len(stmts)}

Literals == LiteralsOf(node_statements) \cup LiteralsOf(relationship_statements)

\* C18: the literal of a property of a declared type is the raw value for
\* number and list, the quoted value for string and datetime("..") for
\* datetime, whatever the shape of the value; and every literal of the batch's
\* statements is the literal of a compiled property of that name.
C18_TypeDirected ==
    /\ \A p \in CompiledProps :
            p.type \in Declared
            => _get_property_value(p) = [fmt |-> FormOf(p.type), value |-> p.value]
    /\ Generated
        => \A l \in Literals :
            \E p \in CompiledProps :
                /\ p.name = l.name
                /\ l.lit.value = p.value
                /\ p.type \in Declared => l.lit.fmt = FormOf(p.type)

\* C18 happens: the statements generated hold a text written raw under type
\* number, a number written quoted under type string, a datetime and a raw
\* list.
C18_Witness ==
    /\ Generated
    /\ \E l \in Literals : l.lit.fmt = "raw" /\ l.lit.value.kind = "str"
    /\ \E l \in Literals : l.lit.fmt = "quoted" /\ l.lit.value.kind = "num"
    /\ \E l \in Literals : l.lit.fmt = "datetime"
    /\ \E l \in Literals : l.lit.fmt = "raw" /\ l.lit.value.kind = "list"

\* C19: a property whose type is not one of the declared ones is reported as
\* an error and never rendered: no statement of the batch holds a literal
\* under its name.
C19_UndeclaredRejected ==
    Generated
    => \A p \in CompiledProps :
            p.type \notin Declared
            => \A l \in Literals : l.name # p.name

\* What the code does instead: the value of a property of any other type is
\* written in double quotes, as a string's is.
C19_QuotedInstead ==
    \A p \in CompiledProps :
        p.type \notin Declared
        => _get_property_value(p) = [fmt |-> "quoted", value |-> p.value]

\* The definition of the mapping a compiled node was compiled from.
NodeDefOf(node) ==
    mapping.nodes[CHOOSE k \in 1..Len(mapping.nodes) :
                        mapping.nodes[k].id = node.id]

\* The unique keys a definition lists.
ListedUnique(def) ==
    IF Has(def, "uniqueProperties") THEN def.uniqueProperties ELSE {}

\* Every entry of the unit's uniqueProperties is an entry of its properties,
\* under a name among listed.
UniqueWithin(unit, listed) ==
    Has(unit, "uniqueProperties")
    => /\ Has(unit, "properties")
       /\ \A j \in 1..Len(unit.uniqueProperties) :
            /\ \E e \in 1..Len(unit.properties) :
                    unit.properties[e] = unit.uniqueProperties[j]
            /\ unit.uniqueProperties[j].name \in listed

\* The names some relationship definition of the given type lists as unique.
ListedByType(type) ==
    UNION {ListedUnique(mapping.relationships[k]) :
            k \in {x \in 1..Len(mapping.relationships) :
                    mapping.relationships[x].type = type}}

\* C20: in every compiled node, node instance, relationship and relationship
\* instance that carries uniqueProperties, each entry of uniqueProperties is
\* an entry of properties with the same value and type, and its name is one
\* the definition lists in uniqueProperties.
C20_UniqueSubset ==
    /\ \A k \in 1..Len(nodes) :
        \A e \in 1..Len(NodeUnits(<<nodes[k]>>)) :
            UniqueWithin(NodeUnits(<<nodes[k]>>)[e],
                         ListedUnique(NodeDefOf(nodes[k])))
    /\ \A k \in 1..Len(relationships) :
        \A e \in 1..Len(RelationshipUnits(<<relationships[k]>>)) :
            UniqueWithin(RelationshipUnits(<<relationships[k]>>)[e],
                         ListedByType(relationships[k].type))

\* C20 happens: the batch holds a node, a node instance and a relationship of
\* which the definition lists some properties as unique and not the others,
\* and each carries uniqueProperties.
C20_Witness ==
    /\ \E k \in 1..Len(nodes) :
        /\ nodes[k].nodeType = "standard"
        /\ Has(nodes[k], "uniqueProperties")
        /\ Len(nodes[k].uniqueProperties) < Len(nodes[k].properties)
    /\ \E k \in 1..Len(relationships) :
        \E e \in 1..Len(RelationshipUnits(<<relationships[k]>>)) :
            Let(RelationshipUnits(<<relationships[k]>>)[e], LAMBDA u :
                /\ Has(u, "uniqueProperties")
                /\ Len(u.uniqueProperties) < Len(u.properties))

\* C20 on iterators happens: the instances of a node and those of a
\* relationship carry uniqueProperties.
C20_Instances ==
    /\ \E k \in 1..Len(nodes) :
        /\ nodes[k].nodeType = "iterator"
        /\ Len(nodes[k].instances) = MaxArray
        /\ \A e \in 1..MaxArray : Has(nodes[k].instances[e], "uniqueProperties")
    /\ \E k \in 1..Len(relationships) :
        /\ relationships[k].relationshipType = "iterator"
        /\ Len(relationships[k].instances) = MaxArray
        /\ \A e \in 1..MaxArray :
                /\ Has(relationships[k].instances[e], "uniqueProperties")
                /\ Len(relationships[k].instances[e].uniqueProperties)
                    < Len(relationships[k].instances[e].properties)

\* The transforms of a stage applied one after the other, the last module
\* last.
RECURSIVE Fold(_, _, _)
Fold(Hook(_, _), ms, x) ==
    IF ms = <<>> THEN x
    ELSE Hook(ms[Len(ms)], Fold(Hook, SubSeq(ms, 1, Len(ms) - 1), x))

\* The stage names of a document's stages, and the modules of one stage.
StageNames(c) == [k \in 1..Len(c.stages) |-> c.stages[k].stage]

ModulesOf(c, stage) ==
    Let(SelectSeq(c.stages, LAMBDA st : st.stage = stage), LAMBDA sel :
        [k \in 1..Len(sel) |-> sel[k].module])

\* In xs every a comes before every b.
Before(xs, a, b) ==
    \A i, j \in 1..Len(xs) : xs[i] = a /\ xs[j] = b => i < j

Occurs(xs, a) == \E i \in 1..Len(xs) : xs[i] = a

\* C21: for every document the pre hooks run in registration order before
\* node compilation, each on the previous one's result; the post-node hooks
\* run after it and only when it was valid; relationship compilation resolves
\* its endpoints against the node list the post-node hooks returned; the
\* post-relationship hooks run last and only when relationship compilation was
\* valid; and the batch output receives the lists the last hooks returned.
C21_StageOrder ==
    /\ \A i \in 1..Len(contrib) :
        ~contrib[i].raised
        => Let([c |-> contrib[i],
                names |-> StageNames(contrib[i]),
                pre |-> Fold(PreHook, pre_modules, data[i])],
               LAMBDA x :
               Let(_gen_nodes(mapping, x.pre), LAMBDA n :
               Let(Fold(PostNodeHook, post_node_modules, n.nodes),
                   LAMBDA doc_nodes :
               Let(_gen_relationships(mapping, x.pre, doc_nodes), LAMBDA r :
                /\ Before(x.names, "pre", "nodes")
                /\ Before(x.names, "nodes", "post_node")
                /\ Before(x.names, "post_node", "relationships")
                /\ Before(x.names, "nodes", "relationships")
                /\ Before(x.names, "relationships", "post_relationship")
                /\ ModulesOf(x.c, "pre") = pre_modules
                /\ Occurs(x.names, "nodes")
                /\ x.c.nodes_valid = n.valid
                /\ IF n.valid
                   THEN /\ ModulesOf(x.c, "post_node") = post_node_modules
                        /\ Occurs(x.names, "relationships")
                        /\ x.c.rels_valid = r.valid
                   ELSE /\ ~Occurs(x.names, "post_node")
                        /\ ~Occurs(x.names, "relationships")
                /\ IF n.valid /\ r.valid
                   THEN /\ ModulesOf(x.c, "post_relationship")
                            = post_relationship_modules
                        /\ x.c.nodes = doc_nodes
                        /\ x.c.relationships
                            = Fold(PostRelationshipHook,
                                   post_relationship_modules, r.relationships)
                   ELSE /\ ~Occurs(x.names, "post_relationship")
                        /\ x.c.nodes = <<>>
                        /\ x.c.relationships = <<>>
                /\ \A k \in 1..Len(x.c.relationships) :
                    /\ \E j \in 1..Len(doc_nodes) :
                            x.c.relationships[k].sourceNode = doc_nodes[j]
                    /\ \E j \in 1..Len(doc_nodes) :
                            x.c.relationships[k].destinationNode = doc_nodes[j]))))
    /\ nodes = ConcatField(contrib, "nodes")
    /\ relationships = ConcatField(contrib, "relationships")

\* C21 happens: with modules loaded at every stage, a document that has no
\* field "a" went through all of them in order and added its nodes and its
\* relationships to the batch output.
C21_Witness ==
    /\ Len(contrib) = 1
    /\ ~PathPresent(<<"a">>, data[1])
    /\ ~PathPresent(<<"b">>, data[1])
    /\ ~contrib[1].raised
    /\ StageNames(contrib[1])
        = <<"pre", "pre", "nodes", "post_node", "relationships",
            "post_relationship", "post_relationship">>
    /\ nodes # <<>>
    /\ Len(relationships) = 2

\* The other way through C21 happens: a post-node hook removed the node the
\* relationship ends on, and the document stopped after relationship
\* compilation.
C21_Removed ==
    /\ Len(contrib) = 1
    /\ ~contrib[1].raised
    /\ post_node_modules = <<"drop_n2">>
    /\ post_relationship_modules # <<>>
    /\ mapping.relationships[1].required
    /\ contrib[1].nodes_valid
    /\ ~contrib[1].rels_valid
    /\ StageNames(contrib[1]) = <<"nodes", "post_node", "relationships">>

\* Event i is an empty batch returned in continuous mode.
EmptyBatchAt(i) ==
    scroll /\ events[i].e = "scroll" /\ events[i].k = 0

\* C22: an empty batch in continuous mode is no error: nothing of that batch
\* is compiled, generated or executed; what follows it is the sleep and then
\* the next poll (or an interrupt), or, with end_after_empty, the closing of
\* the sink with the run ended normally.
C22_EmptyBatch ==
    \A i \in 1..Len(events) :
        EmptyBatchAt(i)
        => /\ \A j \in 1..Len(events) :
                events[j].batch = events[i].batch
                => events[j].e \notin {"compile", "generate", "exec", "fail",
                                      "built"}
           /\ IF end_after_empty
              THEN /\ outcome = "ended"
                   /\ IF i = Len(events) THEN pc = "finally" /\ closed = 0
                      ELSE /\ i + 1 = Len(events)
                           /\ events[i + 1].e = "close"
                           /\ pc = "done" /\ closed = 1
              ELSE /\ i = Len(events) => pc = "sleep" /\ outcome = "running"
                   /\ i < Len(events)
                        => events[i + 1].e \in {"sleep", "interrupt"}
                   /\ (i + 1 < Len(events) /\ events[i + 1].e = "sleep")
                        => events[i + 2].e \in {"scroll", "scroll_failed",
                                                "interrupt"}

\* C22 happens: the run built a batch, then got an empty one, slept and
\* polled again.
C22_Witness ==
    \E i \in 2..(Len(events) - 2) :
        /\ EmptyBatchAt(i)
        /\ ~end_after_empty
        /\ \E j \in 1..(i - 1) : events[j].e = "exec"
        /\ events[i + 1].e = "sleep"
        /\ events[i + 2].e = "scroll"

\* The other way out of C22 happens: with end_after_empty the empty batch
\* ended the run and the sink was closed.
C22_Ended ==
    /\ end_after_empty
    /\ Len(events) >= 3
    /\ EmptyBatchAt(Len(events) - 1)
    /\ events[Len(events)].e = "close"
    /\ \E j \in 1..Len(events) : events[j].e = "exec"
    /\ outcome = "ended"

\* The scroll id stored after the first k calls: the id of the last response,
\* unset after a response without one, unchanged by a call that raised.
RECURSIVE StoredAfter(_)
StoredAfter(k) ==
    IF k = 0 THEN NoSid
    ELSE IF calls[k].response = Raises THEN StoredAfter(k - 1)
    ELSE calls[k].response

\* C30: the stored scroll id is unset or the id of the most recent response
\* that had one; a call made with the id unset is the initial search and one
\* made with it set continues that scroll; a response without a scroll id
\* makes scroll() return None and unsets the id, and the run ends in an error
\* on it: no sleep and no further poll follows.
C30_ScrollCursor ==
    /\ _sid = StoredAfter(Len(calls))
    /\ _sid # NoSid
        => \E k \in 1..Len(calls) :
                /\ calls[k].response = _sid
                /\ \A j \in (k + 1)..Len(calls) : calls[j].response = Raises
    /\ \A k \in 1..Len(calls) :
        /\ calls[k].scroll_id = StoredAfter(k - 1)
        /\ calls[k].request = "search" <=> calls[k].scroll_id = NoSid
        /\ calls[k].request = "scroll" <=> calls[k].scroll_id \in ScrollIds
        /\ calls[k].response \in ScrollIds <=> calls[k].returned = "hits"
        /\ calls[k].response = NoSid
            => /\ calls[k].returned = "None"
               /\ StoredAfter(k) = NoSid
               /\ k = Len(calls)
               /\ outcome = "error"
               /\ pc \in {"finally", "done"}
               /\ events[Len(events)].e \in {"scroll_failed", "close"}
               /\ \A j \in 1..Len(events) :
                    events[j].batch = batch
                    => events[j].e \in {"scroll_failed", "close"}

\* C30 happens: the first call searched, the second continued the scroll and
\* was answered with another id, the third continued that one and was answered
\* without an id; the run ended in an error and closed the sink.
C30_Witness ==
    /\ Len(calls) = 3
    /\ calls[1].request = "search"
    /\ calls[2].request = "scroll"
    /\ calls[2].scroll_id # calls[2].response
    /\ calls[3].scroll_id = calls[2].response
    /\ calls[3].response = NoSid
    /\ _sid = NoSid
    /\ outcome = "error"
    /\ closed = 1

\* C29: whichever way _execute is left, builder.close() has been called
\* exactly once by then, every way out leads to it, and nothing is executed
\* after it.
C29_SinkReleased ==
    /\ closed \in {0, 1}
    /\ pc = "done" <=> closed = 1
    /\ outcome # "running" <=> pc \in {"finally", "done"}
    /\ \A j \in 1..Len(events) :
        events[j].e = "close" => j = Len(events) /\ pc = "done"
    /\ pc = "done" => events[Len(events)].e = "close"

\* C29 happens: the sink raised on a statement after others had been executed,
\* and the sink was closed.
C29_Witness ==
    /\ pc = "done"
    /\ closed = 1
    /\ outcome = "error"
    /\ Len(events) >= 3
    /\ events[Len(events) - 1].e = "fail"
    /\ events[Len(events) - 2].e = "exec"

(***************************************************************************)
(* Endpoint match keys                                                     *)
(***************************************************************************)
\* The source and destination each statement of a compiled relationship
\* matches: the compiled nodes, or one instance of the iterator endpoint.
EndpointsOfRelationship(rel) ==
    IF rel.relationshipType # "iterator"
    THEN << [s |-> rel.sourceNode, d |-> rel.destinationNode] >>
    ELSE IF rel.sourceNode.nodeType = "iterator"
         THEN [a \in 1..Len(Zip(rel.sourceNode.instances, rel.instances)) |->
                [s |-> rel.sourceNode.instances[a], d |-> rel.destinationNode]]
         ELSE IF Has(rel.destinationNode, "instances")
              THEN [a \in 1..Len(Zip(rel.destinationNode.instances,
                                     rel.instances)) |->
                     [s |-> rel.sourceNode,
                      d |-> rel.destinationNode.instances[a]]]
              ELSE <<>>

RECURSIVE Endpoints(_)
Endpoints(rs) ==
    IF rs = <<>> THEN <<>>
    ELSE EndpointsOfRelationship(rs[1]) \o Endpoints(Tail(rs))

\* The keys of the conditions on var before the MERGE or CREATE keyword.
WhereKeys(stmt, var) == DOMAIN AssignsIn(stmt, var, 1, WritePos(stmt))

\* The endpoint bound to var carries uniqueProperties and the statement's
\* conditions on var are exactly those.
MatchedByMergeKeys(stmt, var, endpoint) ==
    Has(endpoint, "uniqueProperties")
    => WhereKeys(stmt, var) = Names(endpoint.uniqueProperties)

\* C23: in every relationship statement, an endpoint that carries
\* uniqueProperties is matched on exactly those: the conditions on s are the
\* source's uniqueProperties and the conditions on d the destination's, and
\* no other property of the endpoint is in the WHERE clause.
C23_EndpointMergeKeys ==
    Generated
    /\ Len(relationship_statements) = Len(Endpoints(relationships))
    => \A k \in 1..Len(relationship_statements) :
        /\ MatchedByMergeKeys(relationship_statements[k], "s",
                              Endpoints(relationships)[k].s)
        /\ MatchedByMergeKeys(relationship_statements[k], "d",
                              Endpoints(relationships)[k].d)

\* The source's half of C23, which the three generators share.
C23_SourceMergeKeys ==
    Generated
    /\ Len(relationship_statements) = Len(Endpoints(relationships))
    => \A k \in 1..Len(relationship_statements) :
        MatchedByMergeKeys(relationship_statements[k], "s",
                           Endpoints(relationships)[k].s)

\* A statement whose source carries a property outside its uniqueProperties.
C23_SourceReached ==
    /\ pc = "execute"
    /\ Len(relationship_statements) = Len(Endpoints(relationships))
    /\ \E k \in 1..Len(relationship_statements) :
        Let(Endpoints(relationships)[k].s, LAMBDA e :
            /\ Has(e, "uniqueProperties")
            /\ Names(e.properties) \ Names(e.uniqueProperties) # {})

(***************************************************************************)
(* Relationship property partition                                         *)
(***************************************************************************)
\* The declared properties of a definition whose path the document lacks and
\* that the definition does not require.
AbsentOptional(def, doc) ==
    IF Has(def, "properties")
    THEN {def.properties[j].name : j \in
            {j \in 1..Len(def.properties) :
                /\ Lookup(doc, def.properties[j]).chk = "False"
                /\ ~IsRequired(def, def.properties[j])}}
    ELSE {}

\* No unit carries one of the names, in properties or in uniqueProperties.
LeftOut(units, names) ==
    \A a \in 1..Len(units) :
        /\ NamesOf(units[a], "properties") \cap names = {}
        /\ NamesOf(units[a], "uniqueProperties") \cap names = {}

\* C24: compiling a relationship definition on a document that lacks the path
\* of a declared property the definition does not require raises nothing and
\* leaves the property out of properties and of uniqueProperties, also when
\* the definition lists it in uniqueProperties.
C24_RelationshipPartition ==
    \A i \in 1..Len(contrib) :
        Let(_gen_nodes(mapping, data[i]), LAMBDA ns :
            ~ns.raised /\ ns.valid
            => \A k \in 1..Len(mapping.relationships) :
                Let([absent |-> AbsentOptional(mapping.relationships[k], data[i]),
                     r |-> GenRelationship(data[i], mapping.relationships[k],
                                           ns.nodes)],
                    LAMBDA c :
                        c.absent # {}
                        => /\ ~c.r.raised
                           /\ c.r.valid
                              => LeftOut(RelationshipUnits(<<c.r.relationship>>),
                                         c.absent)))

\* The same for node compilation, which C24 compares with.
C24_NodePartition ==
    \A i \in 1..Len(contrib) :
        \A k \in 1..Len(mapping.nodes) :
            Let([absent |-> AbsentOptional(mapping.nodes[k], data[i]),
                 r |-> GenNode(data[i], mapping.nodes[k])],
                LAMBDA c :
                    c.absent # {} /\ mapping.nodes[k].nodeType = "standard"
                    => /\ ~c.r.raised
                       /\ c.r.valid => LeftOut(<<c.r.node>>, c.absent))

\* A node compiled without a property the definition lists in
\* uniqueProperties and the document lacks.
C24_NodeReached ==
    \E i \in 1..Len(contrib) :
        \E k \in 1..Len(mapping.nodes) :
            /\ mapping.nodes[k].nodeType = "standard"
            /\ Has(mapping.nodes[k], "uniqueProperties")
            /\ AbsentOptional(mapping.nodes[k], data[i])
                    \cap mapping.nodes[k].uniqueProperties # {}
            /\ GenNode(data[i], mapping.nodes[k]).valid

(***************************************************************************)
(* Edge properties                                                         *)
(***************************************************************************)
\* The property names a relationship statement writes on the edge: inline in
\* the edge pattern, or assigned to r after it.
EdgeWritten(stmt) ==
    DOMAIN EntriesIn(stmt, WritePos(stmt), Len(stmt))
    \cup DOMAIN AssignsIn(stmt, "r", WritePos(stmt), Len(stmt))

\* C25: every property in the properties map of a compiled relationship (or
\* of one instance of it) is written by its statement, inline in the edge
\* pattern or in the SET clause on r; also for a relationship with unique =
\* true and no uniqueProperties.
C25_NoEdgePropertyLost ==
    Generated
    /\ Len(relationship_statements) = Len(RelationshipUnits(relationships))
    => \A k \in 1..Len(relationship_statements) :
        NamesOf(RelationshipUnits(relationships)[k], "properties")
            \subseteq EdgeWritten(relationship_statements[k])

\* C25 without its last case: the relationships that are created, or merged
\* on uniqueProperties.
C25_OtherwiseWritten ==
    Generated
    /\ Len(relationship_statements) = Len(RelationshipUnits(relationships))
    => \A k \in 1..Len(relationship_statements) :
        Let(RelationshipUnits(relationships)[k], LAMBDA u :
            ~EdgeUnique(u) \/ Has(u, "uniqueProperties")
            => NamesOf(u, "properties")
                    = EdgeWritten(relationship_statements[k]))

\* A created edge and a merged edge, each with properties, standard and
\* iterator.
C25_Reached ==
    /\ pc = "execute"
    /\ Len(relationship_statements) = Len(RelationshipUnits(relationships))
    /\ \E k \in 1..Len(relationship_statements) :
        Let(RelationshipUnits(relationships)[k], LAMBDA u :
            /\ Has(u, "properties") /\ Has(u, "uniqueProperties")
            /\ Len(u.properties) > Len(u.uniqueProperties)
            /\ Has(u, "unique") /\ ~u.unique)

(***************************************************************************)
(* Arrow orientation                                                       *)
(***************************************************************************)
\* The labels a statement's MATCH pattern gives an endpoint: its uniqueLabels
\* when it has them, else its labels.
PatternLabels(endpoint) ==
    IF Has(endpoint, "uniqueLabels")
    THEN LabelSet(endpoint, "uniqueLabels") ELSE LabelSet(endpoint, "labels")

\* The edge pattern of a statement: what stands left of the first arrow,
\* between the arrows, and right of the second.
EdgePattern(stmt) ==
    Let(Positions(stmt, "arrow", 1, Len(stmt)), LAMBDA at :
        Let([lo |-> MinOf(at), hi |-> MinOf(at \ {MinOf(at)})], LAMBDA c :
            [arrows |-> <<stmt[c.lo].a, stmt[c.hi].a>>,
             left |-> SubSeq(stmt, c.lo - 2, c.lo - 1),
             edge |-> SubSeq(stmt, c.lo + 1, c.lo + 2),
             right |-> SubSeq(stmt, c.hi + 1, c.hi + 2),
             count |-> Cardinality(at)]))

\* C26: the edge pattern of every relationship statement is (s)-[r:TYPE]->(d)
\* when the relationship's directionality is forward (">") and
\* (s)<-[r:TYPE]-(d) when it is backward; s is matched as the relationship's
\* sourceNode and d as its destinationNode, for standard relationships and
\* for the instances of iterator relationships.
C26_ArrowOrientation ==
    Generated
    /\ Len(relationship_statements) = Len(RelationshipUnits(relationships))
    /\ Len(relationship_statements) = Len(Endpoints(relationships))
    => \A k \in 1..Len(relationship_statements) :
        Let([u |-> RelationshipUnits(relationships)[k],
             e |-> Endpoints(relationships)[k],
             st |-> relationship_statements[k],
             p |-> EdgePattern(relationship_statements[k])],
            LAMBDA c :
                /\ c.p.count = 2
                /\ c.p.arrows = (IF c.u.directionality = ">"
                                 THEN <<"-[", "]->">> ELSE <<"<-[", "]-">>)
                /\ c.p.left = <<Open("s"), Close>>
                /\ c.p.edge = <<Var("r"), Label(c.u.type)>>
                /\ c.p.right = <<Open("d"), Close>>
                /\ PatternOf(c.st, "s").labels = PatternLabels(c.e.s)
                /\ PatternOf(c.st, "d").labels = PatternLabels(c.e.d))

\* C26 happens: a batch with a backward statement of an iterator relationship
\* whose iterator node is the destination.
C26_Witness ==
    /\ pc = "execute"
    /\ Len(relationship_statements) = Len(RelationshipUnits(relationships))
    /\ \E k \in 1..Len(relationships) :
        /\ relationships[k].relationshipType = "iterator"
        /\ relationships[k].destinationNode.nodeType = "iterator"
        /\ relationships[k].instances[1].directionality = "<"
        /\ Len(relationships[k].instances) >= 2
    /\ \E k \in 1..Len(relationship_statements) :
            EdgePattern(relationship_statements[k]).arrows = <<"<-[", "]-">>

\* Forward and backward statements of standard relationships.
C26_Standard ==
    /\ pc = "execute"
    /\ Len(relationships) = 1
    /\ relationships[1].relationshipType = "standard"
    /\ relationships[1].directionality = "<"
    /\ relationships[1].sourceNode.id = "n2"
    /\ EdgePattern(relationship_statements[1]).arrows = <<"<-[", "]-">>

(***************************************************************************)
(* Merged iterator node instances                                          *)
(***************************************************************************)
\* The instances of the compiled iterator nodes of the batch that carry
\* uniqueProperties.
MergedInstances ==
    SelectSeq(NodeUnits(SelectSeq(nodes, LAMBDA n : n.nodeType = "iterator")),
              LAMBDA inst : Has(inst, "uniqueProperties"))

\* The statement generated for the instance is one MERGE whose pattern holds
\* the unique properties alone and whose SET assigns every other property
\* its compiled value.
MergedWithSet(inst) ==
    Let(IteratorInstanceStatement(inst), LAMBDA r :
        /\ ~r.raised
        /\ Len(r.statements) = 1
        /\ Let([st |-> r.statements[1],
                close |-> CloseAfter(r.statements[1], 1)],
               LAMBDA c :
                /\ c.st[1] = KW("MERGE")
                /\ DOMAIN EntriesIn(c.st, 1, c.close)
                        = Names(inst.uniqueProperties)
                /\ DOMAIN AssignsIn(c.st, "n", c.close, Len(c.st))
                        = Names(inst.properties) \ Names(inst.uniqueProperties)
                /\ \A name \in DOMAIN AssignsIn(c.st, "n", c.close, Len(c.st)) :
                        AssignsIn(c.st, "n", c.close, Len(c.st))[name].value
                            = ValueOf(inst.properties, name)))

\* C27: for every iterator node instance that carries uniqueProperties,
\* _gen_iterator_node_statements produces one MERGE statement whose pattern
\* holds only the unique properties and whose SET clause assigns each
\* property outside uniqueProperties its compiled value; also for an instance
\* with at least one such property.
C27_MergedInstances ==
    \A a \in 1..Len(MergedInstances) : MergedWithSet(MergedInstances[a])

\* C27 for the instances whose properties are all unique.
C27_AllUnique ==
    \A a \in 1..Len(MergedInstances) :
        Names(MergedInstances[a].properties)
            = Names(MergedInstances[a].uniqueProperties)
        => MergedWithSet(MergedInstances[a])

\* An instance whose properties are all unique has been compiled.
C27_Reached ==
    \E a \in 1..Len(MergedInstances) :
        Names(MergedInstances[a].properties)
            = Names(MergedInstances[a].uniqueProperties)

(***************************************************************************)
(* Endpoint match clause                                                   *)
(***************************************************************************)
\* The tokens of a relationship statement after the MATCH patterns and
\* before the MERGE or CREATE keyword.
BetweenMatchAndWrite(stmt) ==
    Let(MinOf({i \in 1..Len(stmt) : stmt[i] = Open("d")}), LAMBDA open :
        SubSeq(stmt, CloseAfter(stmt, open) + 1, WritePos(stmt) - 1))

\* Nothing, or WHERE c1 AND c2 .. AND cn with n >= 1.
WellFormedWhere(toks) ==
    \/ toks = <<>>
    \/ /\ toks[1] = KW("WHERE")
       /\ Len(toks) % 2 = 0
       /\ \A i \in 2..Len(toks) :
            IF i % 2 = 0 THEN toks[i].t = "assign" ELSE toks[i] = KW("AND")

\* C28: in every relationship statement the text between the MATCH patterns
\* and the MERGE or CREATE keyword is empty, or one WHERE followed by one or
\* more conditions joined by AND with a condition on each side of every AND;
\* for every combination of endpoints with and without properties.
C28_WellFormedMatch ==
    Generated
    => \A k \in 1..Len(relationship_statements) :
        WellFormedWhere(BetweenMatchAndWrite(relationship_statements[k]))

\* C28 for the statements whose destination has properties or whose source
\* has none.
C28_OtherCombinations ==
    Generated
    /\ Len(relationship_statements) = Len(Endpoints(relationships))
    => \A k \in 1..Len(relationship_statements) :
        Let(Endpoints(relationships)[k], LAMBDA e :
            Has(e.d, "properties") \/ ~Has(e.s, "properties")
            => WellFormedWhere(
                    BetweenMatchAndWrite(relationship_statements[k])))

\* Statements generated for a destination with properties under a source
\* without, for both with, and for neither.
C28_Reached ==
    /\ pc = "execute"
    /\ Len(relationship_statements) = Len(Endpoints(relationships))
    /\ \E k \in 1..Len(relationship_statements) :
        Let([e |-> Endpoints(relationships)[k],
             b |-> BetweenMatchAndWrite(relationship_statements[k])],
            LAMBDA c :
                \/ Has(c.e.d, "properties") /\ ~Has(c.e.s, "properties")
                   /\ c.b[1] = KW("WHERE") /\ c.b[2].a = "d")
====
